---- MODULE Spec2Model ----
(***************************************************************************)
(* Bar history store and delta engine of silver-bar-verify                 *)
(* (src/vault_delta.py): one fund's persisted bar-history file, the        *)
(* operations update_bar_history and reset_bar_history on it, and the      *)
(* delta report compute_vault_delta returns; and the verification          *)
(* functions of src/verify_silver_etcs.py (aggregate_bars,                 *)
(* compute_expected_oz, build_verification, analyze_barlist and the fund   *)
(* loop of main), its bar-list parsers (the line parsers, the two split    *)
(* functions and parse_bars_from_pdf on the extracted text of a PDF), and  *)
(* the delta loop of the two main functions.                               *)
(*                                                                         *)
(* Python values are encoded as follows: None is the string None below,    *)
(* a dict with insertion order is a record [order, val], a list is a       *)
(* sequence, a date tag is a YYYYMMDD string.                              *)
(***************************************************************************)
EXTENDS Integers, Sequences, FiniteSets, TLC

VARIABLES
    disk,       \* the file bar_history_<fund>.json: <<>> (no file) or <<history>>
    delta,      \* what the last operation returned: <<>> or <<delta report>>
    now,        \* the clock _now_iso() reads; it advances with every save
    processed,  \* history variable: the non-repeat snapshots applied to the
                \* present file, in order, each [date_tag, keys]
    raised,     \* the exception the last operation propagated, or None
    call,       \* a call of a verification function: <<>> (none), <<[op, args]>>
                \* (not returned yet) or <<[op, args, ret]>>
    pc,         \* per process: where its update_bar_history call stands
    mem         \* per process: the locals of its update_bar_history call

vars == <<disk, delta, now, processed, raised, call, pc, mem>>

\* the variables the atomic store operations leave alone
otherVars == <<call, pc, mem>>

(***************************************************************************)
(* Bounds of the model.                                                    *)
(***************************************************************************)
\* longest bar list handed to update_bar_history
MaxBars == 2
\* number of distinct date tags in the wide specification Spec
MaxDate == 2
\* number of saves after which Spec stops taking new snapshots
MaxNow == 3
\* number of distinct date tags in the deep specification SpecDeep
MaxDeepDate == 5
\* longest bar list handed to aggregate_bars
MaxAggBars == 2
\* largest whole-ounce distance of a physical total from the expected 400 oz
MaxDiff == 5
\* longest prefix the split functions are called on, in tokens
MaxTokens == 3
\* longest prefix of the lines the line parsers are called on, in tokens
MaxLineTokens == 2
\* most lines of a PDF after its heading
MaxPdfLines == 3
\* date tags of the specification of mixed snapshots and of the run loop
MaxMixDate == 3

(***************************************************************************)
(* Python values.                                                          *)
(***************************************************************************)
None == "<None>"

\* Python truthiness of an optional string: None and "" are falsy.
Truthy(v) == v # None /\ v # ""

\* x or ""  (vault_delta.py line 72)
OrEmpty(v) == IF Truthy(v) THEN v ELSE ""

FUND == "invesco"

DateTag(i) == "2026010" \o ToString(i)

DateTags == {DateTag(i) : i \in 1..MaxDate}

DeepDateTags == {DateTag(i) : i \in 1..MaxDeepDate}

Last(s) == s[Len(s)]

SeqRange(s) == {s[i] : i \in 1..Len(s)}

SeqMap(F(_), s) == [i \in 1..Len(s) |-> F(s[i])]

\* every enumeration of a finite set as a sequence without repetition
Orders(S) ==
    {s \in [1..Cardinality(S) -> S] : \A i, j \in 1..Cardinality(S) : s[i] = s[j] => i = j}

BoundedSeq(S, n) == UNION {[1..m -> S] : m \in 0..n}

(***************************************************************************)
(* BarRecord values the snapshots are drawn from (the fields that          *)
(* vault_delta.py reads).  Bar1 and Bar2 have the same identity key with   *)
(* different refiner spelling, weights and vault; Bar3 is Bar1 with no     *)
(* vault label; Bar4 is another bar, with an empty vault label.  Spec      *)
(* draws lists, with repetitions, of the three records of one identity;    *)
(* SpecDeep draws lists without repetition of two identities.              *)
(***************************************************************************)
Bar1 == [serial_number |-> "A1", refiner |-> None, gross_oz |-> 1000, fine_oz |-> 999, vault |-> "X"]

Bar2 == [serial_number |-> "A1", refiner |-> "", gross_oz |-> 1001, fine_oz |-> 1000, vault |-> "Y"]

Bar3 == [serial_number |-> "A1", refiner |-> None, gross_oz |-> 1000, fine_oz |-> 999, vault |-> None]

Bar4 == [serial_number |-> "B2", refiner |-> "R", gross_oz |-> 950, fine_oz |-> 949, vault |-> ""]

BarPool == {Bar1, Bar2, Bar3}

DeepBarPool == {Bar1, Bar4}

(***************************************************************************)
(* Bar identity.                                                           *)
(***************************************************************************)
bar_key(bar) == bar.serial_number \o "|" \o OrEmpty(bar.refiner)

(***************************************************************************)
(* Insertion-ordered dict (current_keys).                                  *)
(***************************************************************************)
EmptyDict == [order |-> <<>>, val |-> [k \in {} |-> None]]

\* d[k] = v : a new key goes to the end, an existing key keeps its place
DictPut(d, k, v) ==
    [order |-> IF k \in DOMAIN d.val THEN d.order ELSE Append(d.order, k),
     val   |-> [x \in (DOMAIN d.val) \cup {k} |-> IF x = k THEN v ELSE d.val[x]]]

RECURSIVE BuildCurrentKeys(_, _)
BuildCurrentKeys(bars, n) ==
    IF n = 0 THEN EmptyDict
    ELSE DictPut(BuildCurrentKeys(bars, n - 1), bar_key(bars[n]), bars[n])

\* current_keys = {}; for b in bars: current_keys[bar_key(b)] = b
CurrentKeys(bars) == BuildCurrentKeys(bars, Len(bars))

KeysOf(bars) == {bar_key(bars[i]) : i \in 1..Len(bars)}

(***************************************************************************)
(* The persisted store.                                                    *)
(***************************************************************************)
EmptyHistory ==
    [fund |-> FUND, last_updated |-> None, snapshots |-> <<>>, bars |-> [k \in {} |-> None]]

\* a file that exists and is not valid JSON
CorruptFile == [not_json |-> TRUE]

\* variant: an undecodable file is read as an empty store
json_load_lenient(content) ==
    [raised |-> None, value |-> IF content = CorruptFile THEN EmptyHistory ELSE content]

\* json.load(fh): the decoded value, or the exception it raises
json_load(content) ==
    [raised |-> IF content = CorruptFile THEN "JSONDecodeError" ELSE None, value |-> content]

\* does load_bar_history raise on this file?  (nothing in it catches)
load_raises(d) == d # <<>> /\ json_load(d[1]).raised # None

load_bar_history(d) == IF d = <<>> THEN EmptyHistory ELSE json_load(d[1]).value

save_bar_history(history, t) == <<[history EXCEPT !.last_updated = t]>>

snapshots_of(d) == load_bar_history(d).snapshots

bars_of(d) == load_bar_history(d).bars

(***************************************************************************)
(* compute_vault_delta.                                                    *)
(***************************************************************************)
info_of(key, b) ==
    [key |-> key, serial |-> b.serial_number, refiner |-> b.refiner,
     gross_oz |-> b.gross_oz, vault |-> b.vault]

prev_date_of(history) ==
    IF history.snapshots # <<>> THEN Last(history.snapshots) ELSE None

\* sum(1 for e in hist_bars.values() if e.get("re_entries", 0) > 0)
re_entry_count(hist_bars) ==
    Cardinality({k \in DOMAIN hist_bars : hist_bars[k].re_entries > 0})

\* the early return for a first snapshot or a repeat
first_or_repeat_delta(history, current_keys, date_tag, is_repeat) ==
    LET prev_date == prev_date_of(history)
        hist_bars == history.bars
        added     == SeqMap(LAMBDA k : info_of(k, current_keys.val[k]), current_keys.order)
    IN  [date_tag            |-> date_tag,
         prev_date           |-> prev_date,
         is_first_snapshot   |-> (prev_date = None),
         is_repeat           |-> is_repeat,
         added               |-> IF prev_date = None THEN added ELSE <<>>,
         removed             |-> <<>>,
         returned            |-> <<>>,
         re_entered          |-> <<>>,
         vault_changes       |-> <<>>,
         unchanged           |-> IF is_repeat THEN Len(current_keys.order) ELSE 0,
         total_current       |-> Len(current_keys.order),
         total_ever_seen     |-> Cardinality(DOMAIN hist_bars)
                                 + (IF prev_date = None THEN Len(current_keys.order) ELSE 0),
         total_re_entry_bars |-> re_entry_count(hist_bars)]

\* variant: every bar ever seen is taken as part of the previous snapshot
prev_keys_all(hist_bars) == DOMAIN hist_bars

\* prev_keys = {k for k, e in hist_bars.items() if e["status"] == "present"}
prev_keys_of(hist_bars) == {k \in DOMAIN hist_bars : hist_bars[k].status = "present"}

\* variant: the comparison without the two truthiness tests
is_vault_change_any(old_vault, new_vault) == old_vault # new_vault

\* if old_vault and new_vault and old_vault != new_vault
is_vault_change(old_vault, new_vault) ==
    Truthy(old_vault) /\ Truthy(new_vault) /\ old_vault # new_vault

returned_info(key, b, entry) ==
    [key |-> key, serial |-> b.serial_number, refiner |-> b.refiner,
     gross_oz |-> b.gross_oz, vault |-> b.vault,
     re_entries |-> entry.re_entries + 1, first_seen |-> entry.first_seen,
     last_seen_before |-> entry.last_seen]

removed_info(key, entry) ==
    [key |-> key, serial |-> entry.serial_number, refiner |-> entry.refiner,
     gross_oz |-> entry.gross_oz, vault |-> entry.vault,
     first_seen |-> entry.first_seen, last_seen |-> entry.last_seen]

vault_change_info(key, b, old_vault) ==
    [key |-> key, serial |-> b.serial_number, refiner |-> b.refiner,
     gross_oz |-> b.gross_oz, vault |-> b.vault,
     old_vault |-> old_vault, new_vault |-> b.vault]

\* first loop over current_keys: bars whose stored re_entries is > 0
re_entered_from_history(hist_bars, current_keys) ==
    SeqMap(LAMBDA k : [key |-> k, serial |-> hist_bars[k].serial_number,
                       refiner |-> hist_bars[k].refiner,
                       re_entries |-> hist_bars[k].re_entries,
                       first_seen |-> hist_bars[k].first_seen],
           SelectSeq(current_keys.order,
                     LAMBDA k : k \in DOMAIN hist_bars /\ hist_bars[k].re_entries > 0))

\* second loop: every element of returned is appended as well
re_entered_from_returned(returned) ==
    SeqMap(LAMBDA r : [key |-> r.key, serial |-> r.serial, refiner |-> r.refiner,
                       re_entries |-> r.re_entries, first_seen |-> r.first_seen],
           returned)

\* the normal delta; prev_iter is the order in which the set prev_keys is iterated
normal_delta(history, current_keys, date_tag, prev_iter) ==
    LET hist_bars == history.bars
        prev_keys == prev_keys_of(hist_bars)
        cur       == current_keys.val
        ord       == current_keys.order
        added     == SeqMap(LAMBDA k : info_of(k, cur[k]),
                            SelectSeq(ord, LAMBDA k : k \notin DOMAIN hist_bars))
        both      == SelectSeq(ord, LAMBDA k : k \in DOMAIN hist_bars /\ k \in prev_keys)
        changed   == SelectSeq(both, LAMBDA k : is_vault_change(hist_bars[k].vault, cur[k].vault))
        returned  == SeqMap(LAMBDA k : returned_info(k, cur[k], hist_bars[k]),
                            SelectSeq(ord, LAMBDA k : k \in DOMAIN hist_bars /\ k \notin prev_keys))
        removed   == SeqMap(LAMBDA k : removed_info(k, hist_bars[k]),
                            SelectSeq(prev_iter, LAMBDA k : k \notin DOMAIN cur))
    IN  [date_tag            |-> date_tag,
         prev_date           |-> prev_date_of(history),
         is_first_snapshot   |-> FALSE,
         is_repeat           |-> FALSE,
         added               |-> added,
         removed             |-> removed,
         returned            |-> returned,
         re_entered          |-> re_entered_from_history(hist_bars, current_keys)
                                 \o re_entered_from_returned(returned),
         vault_changes       |-> SeqMap(LAMBDA k : vault_change_info(k, cur[k], hist_bars[k].vault),
                                        changed),
         unchanged           |-> Len(both) - Len(changed),
         total_current       |-> Len(ord),
         total_ever_seen     |-> Cardinality(DOMAIN hist_bars) + Len(added),
         total_re_entry_bars |-> re_entry_count(hist_bars) + Len(returned)]

\* variant: the early return is taken for every call
compute_vault_delta_early(history, current_keys, date_tag, is_repeat, prev_iter) ==
    first_or_repeat_delta(history, current_keys, date_tag, is_repeat)

compute_vault_delta(history, current_keys, date_tag, is_repeat, prev_iter) ==
    IF is_repeat \/ prev_date_of(history) = None
    THEN first_or_repeat_delta(history, current_keys, date_tag, is_repeat)
    ELSE normal_delta(history, current_keys, date_tag, prev_iter)

(***************************************************************************)
(* update_bar_history.                                                     *)
(***************************************************************************)
\* variant: the repeat test is missing
is_recorded_never(history, date_tag) == FALSE

\* if date_tag in history["snapshots"]
is_recorded(history, date_tag) == date_tag \in SeqRange(history.snapshots)

\* variants: the re-entry test never holds, or always holds
was_absent_never(entry) == FALSE

was_absent_always(entry) == TRUE

\* was_absent = entry["status"] == "removed"
was_absent(entry) == entry.status = "removed"

\* variant: every touch of an entry counts as a re-entry
touch_entry_counting(entry, b, date_tag) ==
    [entry EXCEPT
        !.last_seen   = date_tag,
        !.appearances = IF date_tag \notin SeqRange(@) THEN Append(@, date_tag) ELSE @,
        !.re_entries  = @ + 1,
        !.status      = "present",
        !.gross_oz    = b.gross_oz,
        !.fine_oz     = b.fine_oz,
        !.vault       = b.vault]

\* variant: last_seen keeps the value it got when the entry was made
touch_entry_stale_last_seen(entry, b, date_tag) ==
    [entry EXCEPT
        !.appearances = IF date_tag \notin SeqRange(@) THEN Append(@, date_tag) ELSE @,
        !.re_entries  = IF was_absent(entry) THEN @ + 1 ELSE @,
        !.status      = "present",
        !.gross_oz    = b.gross_oz,
        !.fine_oz     = b.fine_oz,
        !.vault       = b.vault]

\* the branch for a key that is already in history["bars"]
touch_entry(entry, b, date_tag) ==
    [entry EXCEPT
        !.last_seen   = date_tag,
        !.appearances = IF date_tag \notin SeqRange(@) THEN Append(@, date_tag) ELSE @,
        !.re_entries  = IF was_absent(entry) THEN @ + 1 ELSE @,
        !.status      = "present",
        !.gross_oz    = b.gross_oz,
        !.fine_oz     = b.fine_oz,
        !.vault       = b.vault]

\* variant: the first appearance is not recorded
new_entry_no_appearance(b, date_tag) ==
    [serial_number |-> b.serial_number,
     refiner       |-> b.refiner,
     first_seen    |-> date_tag,
     last_seen     |-> date_tag,
     appearances   |-> <<>>,
     gross_oz      |-> b.gross_oz,
     fine_oz       |-> b.fine_oz,
     vault         |-> b.vault,
     re_entries    |-> 0,
     status        |-> "present"]

\* the branch for a key that is not yet in history["bars"]
new_entry(b, date_tag) ==
    [serial_number |-> b.serial_number,
     refiner       |-> b.refiner,
     first_seen    |-> date_tag,
     last_seen     |-> date_tag,
     appearances   |-> <<date_tag>>,
     gross_oz      |-> b.gross_oz,
     fine_oz       |-> b.fine_oz,
     vault         |-> b.vault,
     re_entries    |-> 0,
     status        |-> "present"]

\* for key, b in current_keys.items(): update or create the entry
update_entries(hist_bars, current_keys, date_tag) ==
    [k \in (DOMAIN hist_bars) \cup (DOMAIN current_keys.val) |->
        IF k \in DOMAIN current_keys.val
        THEN IF k \in DOMAIN hist_bars
             THEN touch_entry(hist_bars[k], current_keys.val[k], date_tag)
             ELSE new_entry(current_keys.val[k], date_tag)
        ELSE hist_bars[k]]

\* variant: the entries of absent bars are deleted instead of marked
mark_removed_deleting(hist_bars, current_keys) ==
    [k \in {x \in DOMAIN hist_bars : x \in DOMAIN current_keys.val} |-> hist_bars[k]]

\* variant: no entry is marked, the absent bars stay present
mark_removed_keeping(hist_bars, current_keys) == hist_bars

\* for key, entry in history["bars"].items(): mark the absent ones removed
mark_removed(hist_bars, current_keys) ==
    [k \in DOMAIN hist_bars |->
        IF k \notin DOMAIN current_keys.val /\ hist_bars[k].status = "present"
        THEN [hist_bars[k] EXCEPT !.status = "removed"]
        ELSE hist_bars[k]]

\* the history as it is handed to save_bar_history
merged_history(history, current_keys, date_tag) ==
    [history EXCEPT
        !.bars      = mark_removed(update_entries(@, current_keys, date_tag), current_keys),
        !.snapshots = Append(@, date_tag)]

\* the two processes that may run update_bar_history on the same fund
Procs == {"p1", "p2"}

\* lines 140-202 on the locals of a call: the history it loaded, its bars,
\* its date_tag, and the snapshots that led to the history it loaded
finish_update(history, bars, date_tag, applied) ==
    LET current_keys == CurrentKeys(bars)
    IN  IF is_recorded(history, date_tag)
        THEN /\ delta' = <<compute_vault_delta(history, current_keys, date_tag, TRUE, <<>>)>>
             /\ UNCHANGED <<disk, now, processed>>
        ELSE \E prev_iter \in Orders(prev_keys_of(history.bars)) :
             /\ delta' = <<compute_vault_delta(history, current_keys, date_tag, FALSE, prev_iter)>>
             /\ disk' = save_bar_history(merged_history(history, current_keys, date_tag), now)
             /\ now' = now + 1
             /\ processed' = Append(applied, [date_tag |-> date_tag, keys |-> KeysOf(bars)])

\* a whole call, with no other process between its load and its save
update_bar_history(bars, date_tag) ==
    /\ IF load_raises(disk)
       THEN /\ raised' = json_load(disk[1]).raised
            /\ delta' = <<>>
            /\ UNCHANGED <<disk, now, processed>>
       ELSE /\ raised' = None
            /\ finish_update(load_bar_history(disk), bars, date_tag, processed)
    /\ UNCHANGED otherVars

\* os.remove(path) when the file exists
reset_bar_history ==
    /\ disk' = <<>>
    /\ delta' = <<>>
    /\ processed' = <<>>
    /\ raised' = None
    /\ UNCHANGED now
    /\ UNCHANGED otherVars

Init ==
    /\ disk = <<>>
    /\ delta = <<>>
    /\ now = 1
    /\ processed = <<>>
    /\ raised = None
    /\ call = <<>>
    /\ pc = [p \in Procs |-> "idle"]
    /\ mem = [p \in Procs |-> <<>>]


(***************************************************************************)
(* Spec: bar lists over BarPool, date tags in any order, and resets.       *)
(***************************************************************************)
BarLists == BoundedSeq(BarPool, MaxBars)

Next ==
    \/ \E bars \in BarLists, date_tag \in DateTags :
          /\ now <= MaxNow \/ date_tag \in SeqRange(snapshots_of(disk))
          /\ update_bar_history(bars, date_tag)
    \/ reset_bar_history

Spec == Init /\ [][Next]_vars

(***************************************************************************)
(* SpecDeep: long histories of few bars.  The code only tests date tags    *)
(* for equality and membership, so a new tag is taken in ascending order.  *)
(***************************************************************************)
DeepBarLists == UNION {Orders(S) : S \in SUBSET DeepBarPool}

NextDeepTags == SeqRange(snapshots_of(disk)) \cup {DateTag(Len(snapshots_of(disk)) + 1)}

NextDeep ==
    \E bars \in DeepBarLists, date_tag \in NextDeepTags \cap DeepDateTags :
        update_bar_history(bars, date_tag)

SpecDeep == Init /\ [][NextDeep]_vars

(***************************************************************************)
(* Vocabulary of the properties.                                           *)
(***************************************************************************)
HasDelta == delta # <<>>

\* the last operation was a non-repeat update_bar_history call
FreshDelta == HasDelta /\ ~delta[1].is_repeat

\* the last operation was a non-first, non-repeat update_bar_history call
NormalDelta == FreshDelta /\ ~delta[1].is_first_snapshot

KeySeq(list) == SeqMap(LAMBDA r : r.key, list)

KeySet(list) == {list[i].key : i \in 1..Len(list)}

NoDup(s) == \A i, j \in 1..Len(s) : s[i] = s[j] => i = j

\* the first record of the list with identity key k
FirstWithKey(bars, k) == bars[CHOOSE i \in 1..Len(bars) :
                                /\ bar_key(bars[i]) = k
                                /\ \A j \in 1..(i - 1) : bar_key(bars[j]) # k]

(***************************************************************************)
(* C1.  A call whose date_tag is already in snapshots, with any bar set,   *)
(* returns a delta with is_repeat = true and leaves the file as it was:    *)
(* no entry changes, snapshots is not appended to, nothing is written (the *)
(* clock that stamps a save is not read); the delta is determined by that  *)
(* store, the date_tag and the number of distinct bars, so a second call   *)
(* finds the same store and returns the same delta.                        *)
(***************************************************************************)
\* the delta of a repeat call for date tag on store d with n distinct bars
RepeatDeltaOn(d, tag, n) ==
    [date_tag            |-> tag,
     prev_date           |-> Last(snapshots_of(d)),
     is_first_snapshot   |-> FALSE,
     is_repeat           |-> TRUE,
     added               |-> <<>>,
     removed             |-> <<>>,
     returned            |-> <<>>,
     re_entered          |-> <<>>,
     vault_changes       |-> <<>>,
     unchanged           |-> n,
     total_current       |-> n,
     total_ever_seen     |-> Cardinality(DOMAIN bars_of(d)),
     total_re_entry_bars |-> Cardinality({k \in DOMAIN bars_of(d) : bars_of(d)[k].re_entries > 0})]

C1_RepeatIsNoOp ==
    [][(delta' # <<>> /\ delta'[1].date_tag \in SeqRange(snapshots_of(disk)))
        => /\ delta'[1].is_repeat
           /\ disk' = disk
           /\ now' = now
           /\ processed' = processed
           /\ delta'[1] = RepeatDeltaOn(disk', delta'[1].date_tag, delta'[1].total_current)]_vars

\* a repeat call was made with an empty bar list for a date whose recorded
\* snapshot held a bar
C1_Witness ==
    /\ HasDelta
    /\ delta[1].is_repeat
    /\ delta[1].total_current = 0
    /\ \E k \in DOMAIN bars_of(disk) :
          delta[1].date_tag \in SeqRange(bars_of(disk)[k].appearances)

(***************************************************************************)
(* C2.  A bar first seen in one snapshot, absent from the next and present *)
(* again in the one after has, once that third snapshot is applied,        *)
(* re_entries = 1 and appearances = [first date, third date], and is in    *)
(* `returned` of the third delta; in every later non-repeat delta whose    *)
(* snapshot holds it, it is in `re_entered`.                               *)
(***************************************************************************)
NumProcessed == Len(processed)

\* k is first seen in snapshot i, absent from snapshot i+1, present in i+2
OutAndBack(k, i) ==
    /\ i + 2 <= NumProcessed
    /\ k \in processed[i].keys
    /\ \A j \in 1..(i - 1) : k \notin processed[j].keys
    /\ k \notin processed[i + 1].keys
    /\ k \in processed[i + 2].keys

C2_ReEntryCounted ==
    \A k \in DOMAIN bars_of(disk) : \A i \in 1..NumProcessed :
        OutAndBack(k, i) =>
            /\ (NumProcessed = i + 2) =>
                  /\ bars_of(disk)[k].re_entries = 1
                  /\ bars_of(disk)[k].appearances
                       = <<processed[i].date_tag, processed[i + 2].date_tag>>
                  /\ FreshDelta => k \in KeySet(delta[1].returned)
            /\ (NumProcessed > i + 2 /\ FreshDelta /\ k \in processed[NumProcessed].keys)
                  => k \in KeySet(delta[1].re_entered)

\* a bar that went out and came back is still held two snapshots later
C2_Witness ==
    /\ FreshDelta
    /\ \E k \in DOMAIN bars_of(disk) :
          /\ OutAndBack(k, 1)
          /\ NumProcessed = 5
          /\ k \in processed[4].keys
          /\ k \in processed[5].keys

(***************************************************************************)
(* C3.  The first call on an empty store returns is_first_snapshot = true  *)
(* with `added` listing each identity key of the given bars once and       *)
(* removed, returned, vault_changes and re_entered empty; afterwards       *)
(* snapshots = [date_tag] and bars has one entry per identity key, each    *)
(* present, with re_entries 0, first_seen = last_seen = date_tag and       *)
(* appearances = [date_tag].                                               *)
(***************************************************************************)
C3_FirstSnapshot ==
    /\ (FreshDelta /\ Len(snapshots_of(disk)) = 1) => delta[1].is_first_snapshot
    /\ (HasDelta /\ delta[1].is_first_snapshot) =>
          /\ ~delta[1].is_repeat
          /\ NumProcessed = 1
          /\ processed[1].date_tag = delta[1].date_tag
          /\ NoDup(KeySeq(delta[1].added))
          /\ KeySet(delta[1].added) = processed[1].keys
          /\ delta[1].removed = <<>>
          /\ delta[1].returned = <<>>
          /\ delta[1].vault_changes = <<>>
          /\ delta[1].re_entered = <<>>
          /\ snapshots_of(disk) = <<delta[1].date_tag>>
          /\ DOMAIN bars_of(disk) = processed[1].keys
          /\ \A k \in DOMAIN bars_of(disk) :
                /\ bars_of(disk)[k].status = "present"
                /\ bars_of(disk)[k].re_entries = 0
                /\ bars_of(disk)[k].first_seen = delta[1].date_tag
                /\ bars_of(disk)[k].last_seen = delta[1].date_tag
                /\ bars_of(disk)[k].appearances = <<delta[1].date_tag>>

\* a first snapshot that recorded a bar
C3_Witness ==
    /\ HasDelta
    /\ delta[1].is_first_snapshot
    /\ Len(delta[1].added) = 1
    /\ Cardinality(DOMAIN bars_of(disk)) = 1

(***************************************************************************)
(* C4.  In a non-first, non-repeat delta `removed` lists, once each, the   *)
(* identities of the snapshot processed immediately before that are not in *)
(* the current one (so a bar absent from consecutive snapshots is listed   *)
(* for the first of them only), and every entry whose bar is not in the    *)
(* current snapshot has status removed.                                    *)
(***************************************************************************)
C4_RemovedIsPriorMinusCurrent ==
    NormalDelta =>
        /\ NumProcessed >= 2
        /\ NoDup(KeySeq(delta[1].removed))
        /\ KeySet(delta[1].removed)
             = processed[NumProcessed - 1].keys \ processed[NumProcessed].keys
        /\ \A k \in DOMAIN bars_of(disk) :
              k \notin processed[NumProcessed].keys => bars_of(disk)[k].status = "removed"

\* a bar is absent from the last two snapshots and the last delta does not list it
C4_Witness ==
    /\ NormalDelta
    /\ NumProcessed >= 3
    /\ \E k \in DOMAIN bars_of(disk) :
          /\ k \in processed[NumProcessed - 2].keys
          /\ k \notin processed[NumProcessed - 1].keys
          /\ k \notin processed[NumProcessed].keys
          /\ k \notin KeySet(delta[1].removed)
          /\ bars_of(disk)[k].status = "removed"

(***************************************************************************)
(* Steps of C5 and C6: the store before (disk) and after (disk') a         *)
(* non-first, non-repeat call.                                             *)
(***************************************************************************)
\* in a step: the identities present in the store before and in the snapshot applied
InBoth == {k \in prev_keys_of(bars_of(disk)) : k \in processed'[Len(processed')].keys}

OldVault(k) == bars_of(disk)[k].vault

NewVault(k) == bars_of(disk')[k].vault

(***************************************************************************)
(* C5 as claimed.  An identity that is present in the store and in the     *)
(* current snapshot is in vault_changes exactly when the stored vault      *)
(* differs from the snapshot's vault, whatever the two values are, an      *)
(* absent or empty one included.                                           *)
(***************************************************************************)
C5_AnyVaultDifference ==
    [][NormalDelta' =>
         \A k \in InBoth :
             (k \in KeySet(delta'[1].vault_changes)) <=> (OldVault(k) # NewVault(k))]_vars

(***************************************************************************)
(* C5 as amended.  An identity that is present in the store and in the     *)
(* current snapshot is in vault_changes, with old_vault the stored and     *)
(* new_vault the snapshot's vault, exactly when both vaults are non-empty  *)
(* (neither absent nor "") and differ, and is counted in `unchanged`       *)
(* otherwise; it is never in added or removed.                             *)
(***************************************************************************)
C5_VaultChangeBothNonEmpty ==
    [][NormalDelta' =>
         /\ \A k \in InBoth :
               /\ (k \in KeySet(delta'[1].vault_changes))
                    <=> /\ OldVault(k) \notin {None, ""}
                        /\ NewVault(k) \notin {None, ""}
                        /\ OldVault(k) # NewVault(k)
               /\ \A i \in 1..Len(delta'[1].vault_changes) :
                     delta'[1].vault_changes[i].key = k
                     => /\ delta'[1].vault_changes[i].old_vault = OldVault(k)
                        /\ delta'[1].vault_changes[i].new_vault = NewVault(k)
               /\ k \notin KeySet(delta'[1].added)
               /\ k \notin KeySet(delta'[1].removed)
         /\ NoDup(KeySeq(delta'[1].vault_changes))
         /\ delta'[1].unchanged
              = Cardinality({k \in InBoth : k \notin KeySet(delta'[1].vault_changes)})]_vars

\* a transfer from vault X to vault Y was reported
C5_Witness ==
    /\ NormalDelta
    /\ Len(delta[1].vault_changes) = 1
    /\ delta[1].vault_changes[1].old_vault = "X"
    /\ delta[1].vault_changes[1].new_vault = "Y"

(***************************************************************************)
(* C6.  A bar in two consecutively processed snapshots with the same vault *)
(* label is in none of added, removed, returned and vault_changes of the   *)
(* delta between them and is counted in `unchanged`; its entry stays       *)
(* present and its re_entries does not change.                             *)
(***************************************************************************)
\* in a step: the identities of the last two snapshots whose vault label stays
SameVaultInBoth ==
    {k \in processed'[Len(processed') - 1].keys \cap processed'[Len(processed')].keys :
        OldVault(k) = NewVault(k)}

C6_UnchangedBarNotReported ==
    [][NormalDelta' =>
         /\ \A k \in SameVaultInBoth :
               /\ k \notin KeySet(delta'[1].added)
               /\ k \notin KeySet(delta'[1].removed)
               /\ k \notin KeySet(delta'[1].returned)
               /\ k \notin KeySet(delta'[1].vault_changes)
               /\ bars_of(disk)[k].status = "present"
               /\ bars_of(disk')[k].status = "present"
               /\ bars_of(disk')[k].re_entries = bars_of(disk)[k].re_entries
         /\ delta'[1].unchanged >= Cardinality(SameVaultInBoth)]_vars

\* a delta that counts an unchanged bar
C6_Witness ==
    /\ NormalDelta
    /\ delta[1].unchanged = 1
    /\ delta[1].vault_changes = <<>>
    /\ \E k \in processed[NumProcessed - 1].keys : k \in processed[NumProcessed].keys

(***************************************************************************)
(* C7.  No step other than reset_bar_history takes an identity out of the  *)
(* store: update_bar_history keeps every entry, in state present or        *)
(* removed.                                                                *)
(***************************************************************************)
C7_EntriesKeptUntilReset ==
    [][\/ reset_bar_history
       \/ /\ DOMAIN bars_of(disk) \subseteq DOMAIN bars_of(disk')
          /\ \A k \in DOMAIN bars_of(disk') :
                bars_of(disk')[k].status \in {"present", "removed"}]_vars

\* the store keeps the entry of a bar that left
C7_Witness ==
    \E k \in DOMAIN bars_of(disk) :
        /\ bars_of(disk)[k].status = "removed"
        /\ k \notin processed[NumProcessed].keys

(***************************************************************************)
(* C8.  snapshots never holds a date_tag twice; a step leaves it as it is  *)
(* or appends the date_tag of the call to its end (a reset empties it), so *)
(* it is the list of the distinct date_tags processed, in processing order.*)
(***************************************************************************)
C8_SnapshotsAppendOnly ==
    [][/\ NoDup(snapshots_of(disk'))
       /\ snapshots_of(disk') = SeqMap(LAMBDA r : r.date_tag, processed')
       /\ \/ reset_bar_history
          \/ /\ delta' # <<>>
             /\ \/ /\ delta'[1].is_repeat
                   /\ snapshots_of(disk') = snapshots_of(disk)
                \/ /\ ~delta'[1].is_repeat
                   /\ delta'[1].date_tag \notin SeqRange(snapshots_of(disk))
                   /\ snapshots_of(disk') = Append(snapshots_of(disk), delta'[1].date_tag)]_vars

\* a date was processed again after a second one had been recorded
C8_Witness ==
    /\ HasDelta
    /\ delta[1].is_repeat
    /\ Len(snapshots_of(disk)) = 2
    /\ delta[1].date_tag = snapshots_of(disk)[1]

(***************************************************************************)
(* C9.  In a non-first, non-repeat delta `re_entered` lists each identity  *)
(* at most once and is the set of identities of the current snapshot whose *)
(* re_entries, once the snapshot is applied, is greater than 0.            *)
(***************************************************************************)
C9_ReEnteredIsASet ==
    NormalDelta =>
        /\ KeySet(delta[1].re_entered)
             = {k \in processed[NumProcessed].keys : bars_of(disk)[k].re_entries > 0}
        /\ NoDup(KeySeq(delta[1].re_entered))

(***************************************************************************)
(* C10.  When a bar list holds several records with the same identity key, *)
(* the first record with that key provides the gross_oz, fine_oz and vault *)
(* stored in the entry and the gross_oz and vault reported in the delta.   *)
(***************************************************************************)
C10_FirstOccurrenceWins ==
    [][\A bars \in BarLists, date_tag \in DateTags :
         (date_tag \notin SeqRange(snapshots_of(disk)) /\ update_bar_history(bars, date_tag))
         => \A k \in KeysOf(bars) :
              /\ k \in DOMAIN bars_of(disk')
              /\ bars_of(disk')[k].gross_oz = FirstWithKey(bars, k).gross_oz
              /\ bars_of(disk')[k].fine_oz = FirstWithKey(bars, k).fine_oz
              /\ bars_of(disk')[k].vault = FirstWithKey(bars, k).vault
              /\ \A i \in 1..Len(delta'[1].added) :
                    delta'[1].added[i].key = k
                    => /\ delta'[1].added[i].gross_oz = FirstWithKey(bars, k).gross_oz
                       /\ delta'[1].added[i].vault = FirstWithKey(bars, k).vault]_vars

(***************************************************************************)
(* Verification functions (src/verify_silver_etcs.py).                     *)
(*                                                                         *)
(* A Python number is modelled by the rational it denotes, a record        *)
(* [num, den] in lowest terms with den > 0: arithmetic and comparisons are *)
(* exact, the rounding of binary floating point is not modelled.  Where    *)
(* the other values are records or dicts, Python None is NoneRec.  A dict  *)
(* is a function from its keys; the order of its keys is not modelled.     *)
(***************************************************************************)
NoneRec == [none |-> TRUE]

Abs(n) == IF n < 0 THEN -n ELSE n

RECURSIVE GCD(_, _)
GCD(a, b) == IF b = 0 THEN a ELSE GCD(b, a % b)

\* the rational n / d, d # 0
Rat(n, d) ==
    LET g == GCD(Abs(n), Abs(d))
        s == IF d < 0 THEN -1 ELSE 1
    IN  [num |-> (s * n) \div g, den |-> (s * d) \div g]

Num(n) == [num |-> n, den |-> 1]

RatAdd(a, b) == Rat(a.num * b.den + b.num * a.den, a.den * b.den)

RatSub(a, b) == Rat(a.num * b.den - b.num * a.den, a.den * b.den)

RatMul(a, b) == Rat(a.num * b.num, a.den * b.den)

\* a / b, b # 0
RatDiv(a, b) == Rat(a.num * b.den, a.den * b.num)

RatLT(a, b) == a.num * b.den < b.num * a.den

RatLE(a, b) == a.num * b.den <= b.num * a.den

RatAbs(a) == [num |-> Abs(a.num), den |-> a.den]

\* round(a, 3): to the nearest thousandth, a tie to the even one
Round3(a) ==
    LET n == a.num * 1000
        q == n \div a.den
        r == n - q * a.den
        up == 2 * r > a.den \/ (2 * r = a.den /\ q % 2 = 1)
    IN  Rat(IF up THEN q + 1 ELSE q, 1000)

RECURSIVE SumSeq(_)
\* sum(values)
SumSeq(values) ==
    IF values = <<>> THEN Num(0) ELSE RatAdd(values[1], SumSeq(Tail(values)))

\* the dict f extended with the keys of g that f does not have
Merge(f, g) == [k \in (DOMAIN f) \cup (DOMAIN g) |-> IF k \in DOMAIN f THEN f[k] ELSE g[k]]

\* d.get(k) and d.get(k, default)
Get(d, k, default) == IF k \in DOMAIN d THEN d[k] ELSE default

\* Python truthiness of an optional number
TruthyNum(x) == x # NoneRec /\ x.num # 0

(***************************************************************************)
(* aggregate_bars.                                                         *)
(***************************************************************************)
HasGross(bar) == bar.gross_oz # NoneRec

HasPositiveFine(bar) == bar.fine_oz # NoneRec /\ RatLT(Num(0), bar.fine_oz)

HasPositiveGross(bar) == bar.gross_oz # NoneRec /\ RatLT(Num(0), bar.gross_oz)

\* variant: a missing or non-positive fineness is taken as it is (0 if missing)
fineness_or_one_raw(bar) == IF bar.fineness = NoneRec THEN Num(0) ELSE bar.fineness

\* fn = bar.fineness if bar.fineness and bar.fineness > 0 else 1.0
fineness_or_one(bar) ==
    IF TruthyNum(bar.fineness) /\ RatLT(Num(0), bar.fineness) THEN bar.fineness ELSE Num(1)

GrossOf(bar) == bar.gross_oz

FineOf(bar) == bar.fine_oz

ComputedFineOf(bar) == RatMul(bar.gross_oz, fineness_or_one(bar))

VaultLabel(bar) == IF Truthy(bar.vault) THEN bar.vault ELSE "UNKNOWN"

RefinerLabel(bar) == IF Truthy(bar.refiner) THEN bar.refiner ELSE "UNKNOWN"

aggregate_bars(bars) ==
    LET gross_values   == SeqMap(GrossOf, SelectSeq(bars, HasGross))
        fine_values    == SeqMap(FineOf, SelectSeq(bars, HasPositiveFine))
        total_gross    == SumSeq(gross_values)
        declared_fine  == SumSeq(fine_values)
        fallback_bars  == IF declared_fine = Num(0)
                          THEN SelectSeq(bars, HasPositiveGross) ELSE <<>>
        computed_fine  == SumSeq(SeqMap(ComputedFineOf, fallback_bars))
        computed_fine_count == Len(fallback_bars)
        vault_labels   == {VaultLabel(bars[i]) : i \in 1..Len(bars)}
        refiner_labels == {RefinerLabel(bars[i]) : i \in 1..Len(bars)}
        gross_in(v)    == SumSeq(SeqMap(GrossOf,
                              SelectSeq(bars, LAMBDA b : HasGross(b) /\ VaultLabel(b) = v)))
    IN  [bar_count       |-> Num(Len(bars)),
         bars_with_gross |-> Num(Len(gross_values)),
         bars_with_fine  |-> Num(Len(fine_values)),
         total_gross_oz  |-> total_gross,
         total_fine_oz   |-> IF computed_fine_count > 0 THEN computed_fine ELSE declared_fine,
         fine_oz_computed_from_fineness |-> computed_fine_count > 0,
         vaults          |-> [v \in vault_labels |->
                                [bars     |-> Num(Cardinality({i \in 1..Len(bars) : VaultLabel(bars[i]) = v})),
                                 gross_oz |-> gross_in(v)]],
         refiners        |-> [r \in refiner_labels |->
                                Num(Cardinality({i \in 1..Len(bars) : RefinerLabel(bars[i]) = r}))],
         unique_vaults   |-> Num(Cardinality(vault_labels)),
         unique_refiners |-> Num(Cardinality(refiner_labels))]

(***************************************************************************)
(* compute_expected_oz.                                                    *)
(***************************************************************************)
CERTS == "certificates_x_entitlement"

ASSETS == "assets_div_silver_price"

\* variant: the assets / price route is tried first
compute_expected_oz_assets_first(metrics) ==
    LET certs        == Get(metrics, "certificates_outstanding", NoneRec)
        entitlement  == Get(metrics, "entitlement_oz_per_certificate", NoneRec)
        assets       == Get(metrics, "total_assets_usd", NoneRec)
        silver_price == Get(metrics, "silver_price_usd", NoneRec)
    IN  IF assets # NoneRec /\ TruthyNum(silver_price) /\ RatLT(Num(0), silver_price)
        THEN [value |-> RatDiv(assets, silver_price), method |-> ASSETS]
        ELSE IF certs # NoneRec /\ entitlement # NoneRec
        THEN [value |-> RatMul(certs, entitlement), method |-> CERTS]
        ELSE [value |-> NoneRec, method |-> None]

compute_expected_oz(metrics) ==
    LET certs        == Get(metrics, "certificates_outstanding", NoneRec)
        entitlement  == Get(metrics, "entitlement_oz_per_certificate", NoneRec)
        assets       == Get(metrics, "total_assets_usd", NoneRec)
        silver_price == Get(metrics, "silver_price_usd", NoneRec)
    IN  IF certs # NoneRec /\ entitlement # NoneRec
        THEN [value |-> RatMul(certs, entitlement), method |-> CERTS]
        ELSE IF assets # NoneRec /\ TruthyNum(silver_price) /\ RatLT(Num(0), silver_price)
        THEN [value |-> RatDiv(assets, silver_price), method |-> ASSETS]
        ELSE [value |-> NoneRec, method |-> None]

(***************************************************************************)
(* build_verification.                                                     *)
(***************************************************************************)
INSUFFICIENT == "insufficient_fund_metrics"

MATCH == "match_within_0.25pct"

WARNING == "warning_within_1pct"

OVER == "overcollateralized_gt_1pct"

UNDER == "undercollateralized_gt_1pct"

BandStatuses == {MATCH, WARNING, OVER, UNDER}

\* the literals 0.25, 1.0, 0.01 and 100 of lines 922, 928, 940, 942 and 936
QuarterPct == Rat(1, 4)

OnePct == Num(1)

Tolerance == Rat(1, 100)

Hundred == Num(100)

\* physical_oz = physical_fine if physical_fine > 0 else physical_gross
physical_oz_of(aggregates) ==
    LET physical_fine  == Get(aggregates, "total_fine_oz", Num(0))
        physical_gross == Get(aggregates, "total_gross_oz", Num(0))
    IN  IF RatLT(Num(0), physical_fine) THEN physical_fine ELSE physical_gross

\* variant: both band boundaries are exclusive
status_for_exclusive(pct) ==
    IF RatLT(RatAbs(pct), QuarterPct) THEN MATCH
    ELSE IF RatLT(RatAbs(pct), OnePct) THEN WARNING
    ELSE IF RatLT(OnePct, pct) \/ pct = OnePct THEN OVER
    ELSE UNDER

\* the if / elif chain of lines 940-947
status_for(pct) ==
    IF RatLE(RatAbs(pct), QuarterPct) THEN MATCH
    ELSE IF RatLE(RatAbs(pct), OnePct) THEN WARNING
    ELSE IF RatLT(OnePct, pct) THEN OVER
    ELSE UNDER

\* variant: a non-positive expected_oz is unusable as well
no_expected_nonpositive(expected_oz) == expected_oz = NoneRec \/ RatLE(expected_oz, Num(0))

\* expected_oz is None or expected_oz == 0
no_expected(expected_oz) == expected_oz = NoneRec \/ expected_oz = Num(0)

\* variant: a difference of exactly the tolerance still matches
within_tolerance_inclusive(parsed, declared) == RatLE(RatAbs(RatSub(parsed, declared)), Tolerance)

\* abs(parsed - declared) < 0.01
within_tolerance(parsed, declared) == RatLT(RatAbs(RatSub(parsed, declared)), Tolerance)

\* if header_metadata:
TruthyDict(d) == d # NoneRec /\ DOMAIN d # {}

\* the consistency dict of lines 910-930, or None
internal_consistency(aggregates, header_metadata) ==
    IF ~TruthyDict(header_metadata) THEN NoneRec
    ELSE
    LET declared_count == Get(header_metadata, "declared_bar_count", NoneRec)
        declared_gross == Get(header_metadata, "declared_total_gross_oz", NoneRec)
        declared_fine  == Get(header_metadata, "declared_total_fine_oz", NoneRec)
        parsed_count   == Get(aggregates, "bar_count", Num(0))
        physical_fine  == Get(aggregates, "total_fine_oz", Num(0))
        physical_gross == Get(aggregates, "total_gross_oz", Num(0))
        empty          == [k \in {} |-> NoneRec]
        count_part     == IF declared_count = NoneRec THEN empty
                          ELSE [declared_bar_count |-> declared_count,
                                parsed_bar_count   |-> parsed_count,
                                bar_count_match    |-> declared_count = parsed_count]
        gross_part     == IF declared_gross = NoneRec THEN empty
                          ELSE [declared_total_gross_oz |-> declared_gross,
                                parsed_total_gross_oz   |-> physical_gross,
                                gross_diff_oz |-> Round3(RatSub(physical_gross, declared_gross)),
                                gross_match   |-> within_tolerance(physical_gross, declared_gross)]
        fine_part      == IF declared_fine = NoneRec THEN empty
                          ELSE [declared_total_fine_oz |-> declared_fine,
                                parsed_total_fine_oz   |-> physical_fine,
                                fine_diff_oz |-> Round3(RatSub(physical_fine, declared_fine)),
                                fine_match   |-> within_tolerance(physical_fine, declared_fine)]
    IN  Merge(count_part, Merge(gross_part, fine_part))

\* variant: the issuer comparison also sets the status
issuer_check_overriding(physical_oz, fund_metrics) ==
    LET issuer_reported_oz == IF fund_metrics = NoneRec THEN NoneRec
                              ELSE Get(fund_metrics, "wisdomtree_reported_oz", NoneRec)
    IN  IF TruthyNum(issuer_reported_oz) /\ RatLT(Num(0), issuer_reported_oz)
        THEN LET issuer_diff == RatSub(physical_oz, issuer_reported_oz)
                 issuer_pct  == RatMul(RatDiv(issuer_diff, issuer_reported_oz), Hundred)
             IN  [issuer_reported_oz    |-> issuer_reported_oz,
                  issuer_difference_oz  |-> issuer_diff,
                  issuer_difference_pct |-> issuer_pct,
                  status                |-> status_for(issuer_pct)]
        ELSE [k \in {} |-> NoneRec]

\* the keys the secondary check of lines 950-957 assigns
issuer_check(physical_oz, fund_metrics) ==
    LET issuer_reported_oz == IF fund_metrics = NoneRec THEN NoneRec
                              ELSE Get(fund_metrics, "wisdomtree_reported_oz", NoneRec)
    IN  IF TruthyNum(issuer_reported_oz) /\ RatLT(Num(0), issuer_reported_oz)
        THEN LET issuer_diff == RatSub(physical_oz, issuer_reported_oz)
                 issuer_pct  == RatMul(RatDiv(issuer_diff, issuer_reported_oz), Hundred)
             IN  [issuer_reported_oz    |-> issuer_reported_oz,
                  issuer_difference_oz  |-> issuer_diff,
                  issuer_difference_pct |-> issuer_pct]
        ELSE [k \in {} |-> NoneRec]

\* result[k] = v for every key of updates: an assigned key replaces the old value
DictUpdate(result, updates) == Merge(updates, result)

build_verification(aggregates, expected_oz, method, header_metadata, fund_metrics) ==
    LET physical_oz == physical_oz_of(aggregates)
        result == [expected_oz               |-> expected_oz,
                   expected_method           |-> method,
                   physical_oz_from_bar_list |-> physical_oz,
                   physical_gross_oz         |-> Get(aggregates, "total_gross_oz", Num(0)),
                   physical_fine_oz          |-> Get(aggregates, "total_fine_oz", Num(0)),
                   difference_oz             |-> NoneRec,
                   difference_pct            |-> NoneRec,
                   status                    |-> INSUFFICIENT,
                   internal_consistency      |-> internal_consistency(aggregates, header_metadata)]
    IN  IF no_expected(expected_oz)
        THEN result
        ELSE LET diff == RatSub(physical_oz, expected_oz)
                 pct  == RatMul(RatDiv(diff, expected_oz), Hundred)
             IN  DictUpdate([result EXCEPT !.difference_oz  = diff,
                                           !.difference_pct = pct,
                                           !.status         = status_for(pct)],
                            issuer_check(physical_oz, fund_metrics))

(***************************************************************************)
(* analyze_barlist, verify_fund and the fund loop of main.  The outcome of *)
(* parse_bars_from_pdf is an input: [raised] when it raises, otherwise     *)
(* [bars, parse_meta].  A result that is a record [raised] stands for an   *)
(* exception leaving the function.  The fields that only identify the fund *)
(* and its file (display_name, isin, ticker, barlist_file, source) are     *)
(* left out of the report.                                                 *)
(***************************************************************************)
ZeroAggregate == [total_fine_oz |-> Num(0), total_gross_oz |-> Num(0)]

ParseRaised(parsed) == "raised" \in DOMAIN parsed

\* variant: the exception of the parser leaves analyze_barlist
analyze_barlist_raising(fund_key, parsed, metrics) ==
    LET expected == compute_expected_oz(metrics)
    IN  IF ParseRaised(parsed)
        THEN [raised |-> parsed.raised]
        ELSE LET aggregates  == aggregate_bars(parsed.bars)
                 header_meta == Get(parsed.parse_meta, "header_metadata", NoneRec)
             IN  [fund         |-> fund_key,
                  parse        |-> parsed.parse_meta,
                  aggregates   |-> aggregates,
                  verification |-> build_verification(aggregates, expected.value,
                                       expected.method, header_meta, metrics),
                  bars         |-> parsed.bars,
                  errors       |-> <<>>]

analyze_barlist(fund_key, parsed, metrics) ==
    LET expected == compute_expected_oz(metrics)
    IN  IF ParseRaised(parsed)
        THEN [fund         |-> fund_key,
              parse        |-> NoneRec,
              aggregates   |-> NoneRec,
              verification |-> build_verification(ZeroAggregate, expected.value,
                                   expected.method, NoneRec, NoneRec),
              bars         |-> <<>>,
              errors       |-> <<"parse_failed: " \o parsed.raised>>]
        ELSE LET aggregates  == aggregate_bars(parsed.bars)
                 header_meta == Get(parsed.parse_meta, "header_metadata", NoneRec)
             IN  [fund         |-> fund_key,
                  parse        |-> parsed.parse_meta,
                  aggregates   |-> aggregates,
                  verification |-> build_verification(aggregates, expected.value,
                                       expected.method, header_meta, metrics),
                  bars         |-> parsed.bars,
                  errors       |-> <<>>]

\* resolved: did resolve_barlist_pdf find a file?
verify_fund(fund_key, resolved, parsed, metrics) ==
    LET expected == compute_expected_oz(metrics)
    IN  IF ~resolved
        THEN [fund         |-> fund_key,
              parse        |-> NoneRec,
              aggregates   |-> NoneRec,
              verification |-> build_verification(ZeroAggregate, expected.value,
                                   expected.method, NoneRec, NoneRec),
              bars         |-> <<>>,
              errors       |-> <<"bar_list_pdf_not_available">>]
        ELSE analyze_barlist(fund_key, parsed, metrics)

RECURSIVE run_funds(_, _, _)
\* the loop of lines 1342-1357 after n funds: the results so far, and how
\* the loop ended if it did (return 1, or an exception)
run_funds(funds, inputs, n) ==
    IF n = 0 THEN [results |-> [f \in {} |-> NoneRec], exit |-> None, raised |-> None]
    ELSE LET before == run_funds(funds, inputs, n - 1)
             fund   == funds[n]
             input  == inputs[fund]
             result == verify_fund(fund, input.resolved, input.parsed, input.metrics)
         IN  IF before.exit # None \/ before.raised # None THEN before
             ELSE IF ~TruthyDict(input.metrics) THEN [before EXCEPT !.exit = "1"]
             ELSE IF "raised" \in DOMAIN result THEN [before EXCEPT !.raised = result.raised]
             ELSE [before EXCEPT !.results = Merge(fund :> result, before.results)]

main_results(funds, inputs) == run_funds(funds, inputs, Len(funds))

(***************************************************************************)
(* SpecVerify: the verification functions applied to inputs drawn from     *)
(* the sets below.  The initial state holds the call, the step returns it. *)
(***************************************************************************)
\* BarRecord values for aggregate_bars: declared fine weight; fine weight
\* 0 with an assay; no fine weight and no assay; a negative assay; no
\* weights at all; negative weights with assay 0
VBar1 == [serial_number |-> "A1", refiner |-> "R", vault |-> "X",
          gross_oz |-> Num(1000), fine_oz |-> Num(999), fineness |-> Rat(999, 1000)]

VBar2 == [serial_number |-> "B2", refiner |-> "R", vault |-> "Y",
          gross_oz |-> Num(1000), fine_oz |-> Num(0), fineness |-> Rat(999, 1000)]

VBar3 == [serial_number |-> "C3", refiner |-> None, vault |-> None,
          gross_oz |-> Num(500), fine_oz |-> NoneRec, fineness |-> NoneRec]

VBar4 == [serial_number |-> "D4", refiner |-> "", vault |-> "X",
          gross_oz |-> Num(500), fine_oz |-> NoneRec, fineness |-> Num(-1)]

VBar5 == [serial_number |-> "E5", refiner |-> "S", vault |-> "",
          gross_oz |-> NoneRec, fine_oz |-> NoneRec, fineness |-> Rat(999, 1000)]

VBar6 == [serial_number |-> "F6", refiner |-> "S", vault |-> "Y",
          gross_oz |-> Num(-10), fine_oz |-> Num(-5), fineness |-> Num(0)]

VerifyBarPool == {VBar1, VBar2, VBar3, VBar4, VBar5, VBar6}

VerifyBarLists == BoundedSeq(VerifyBarPool, MaxAggBars)

EmptyDictV == [k \in {} |-> NoneRec]

\* the dicts with no key or with the one key k and a value of vals
Opt(k, vals) == {EmptyDictV} \cup {k :> v : v \in vals}

MetricsSet ==
    {Merge(a, Merge(b, Merge(c, Merge(d, e)))) :
        a \in Opt("certificates_outstanding", {Num(0), Num(400)}),
        b \in Opt("entitlement_oz_per_certificate", {Num(1), Rat(1, 2)}),
        c \in Opt("total_assets_usd", {Num(0), Num(800)}),
        d \in Opt("silver_price_usd", {NoneRec, Num(0), Num(-2), Num(2)}),
        e \in Opt("wisdomtree_reported_oz", {Num(400)})}

\* expected_oz with its method, as compute_expected_oz pairs them
ExpectedSet ==
    {[value |-> NoneRec, method |-> None]}
    \cup {[value |-> v, method |-> CERTS] : v \in {Num(0), Num(400)}}
    \cup {[value |-> Num(-400), method |-> ASSETS]}

\* total_fine_oz: nothing, whole ounces around 400, and a thousandth of an
\* ounce on either side of the totals at which a band of 400 oz ends
PhysicalValues ==
    {Num(0)}
    \cup {Num(400 + k) : k \in (-MaxDiff)..MaxDiff}
    \cup {Rat(400000 + 1000 * k + e, 1000) : k \in {-4, -1, 1, 4}, e \in {-1, 1}}

AggregateSet ==
    {ZeroAggregate}
    \cup {[bar_count |-> Num(2), total_gross_oz |-> g, total_fine_oz |-> f] :
             g \in {Num(400)}, f \in PhysicalValues}

\* header_metadata for an aggregate: none, empty, no declared total, each
\* declared total alone (zero, equal, a hundredth or less away), and all
DeclaredNear(x) == {Num(0), x, RatAdd(x, Tolerance), RatSub(x, Rat(9, 1000)), RatAdd(x, Rat(1, 2000))}

HeaderSet(aggregates) ==
    LET g == Get(aggregates, "total_gross_oz", Num(0))
        f == Get(aggregates, "total_fine_oz", Num(0))
    IN  {NoneRec, EmptyDictV, [as_of_date |-> "1 January 2026"]}
        \cup {[declared_bar_count |-> c] : c \in {Num(0), Num(2)}}
        \cup {[declared_total_gross_oz |-> x] : x \in DeclaredNear(g)}
        \cup {[declared_total_fine_oz |-> x] : x \in DeclaredNear(f)}
        \cup {[declared_bar_count |-> Num(2), declared_total_gross_oz |-> g,
               declared_total_fine_oz |-> x, as_of_date |-> "1 January 2026"] :
                 x \in {f, RatSub(f, Tolerance)}}

FundMetricsSet ==
    {NoneRec, EmptyDictV}
    \cup {[wisdomtree_reported_oz |-> v] : v \in {Num(0), Num(-400), Num(390)}}

ParseFailures == {[raised |-> "No /Root object"], [raised |-> "[Errno 2] No such file"]}

ParseOutcomes ==
    ParseFailures
    \cup {[bars |-> bars, parse_meta |-> [format |-> "invesco", header_metadata |-> h]] :
             bars \in {<<>>, <<VBar1>>, <<VBar2, VBar3>>},
             h \in {EmptyDictV, [declared_bar_count |-> Num(1)]}}

AnalyzeMetricsSet ==
    {m \in MetricsSet : /\ "silver_price_usd" \in DOMAIN m => m["silver_price_usd"] = Num(2)
                        /\ "total_assets_usd" \in DOMAIN m => m["total_assets_usd"] = Num(800)
                        /\ "entitlement_oz_per_certificate" \in DOMAIN m
                              <=> "certificates_outstanding" \in DOMAIN m}

FundKeys == {"invesco", "wisdomtree"}

FundLists == UNION {Orders(S) : S \in SUBSET FundKeys}

\* what main finds for one fund: its metrics file, its document, the parse
FundInputs ==
    {[metrics |-> m, resolved |-> r, parsed |-> p] :
        m \in {EmptyDictV, [certificates_outstanding |-> Num(400),
                            entitlement_oz_per_certificate |-> Num(1)]},
        r \in BOOLEAN,
        p \in {[raised |-> "No /Root object"],
               [bars |-> <<VBar1>>, parse_meta |-> [format |-> "invesco", header_metadata |-> EmptyDictV]]}}

\* the variables a verification call leaves alone
storeVars == <<disk, delta, now, processed, raised, pc, mem>>

\* a call that has not returned yet, and the same call with its result
Pending(op, args) == <<[op |-> op, args |-> args]>>

Returned(c, ret) == <<[op |-> c.op, args |-> c.args, ret |-> ret]>>

IsPending(op) == call # <<>> /\ call[1].op = op /\ "ret" \notin DOMAIN call[1]

PendingCalls ==
    {Pending("aggregate_bars", [bars |-> bars]) : bars \in VerifyBarLists}
    \cup {Pending("compute_expected_oz", [metrics |-> metrics]) : metrics \in MetricsSet}
    \cup UNION {{Pending("build_verification",
                    [aggregates |-> aggregates, expected_oz |-> expected.value,
                     method |-> expected.method, header_metadata |-> header_metadata,
                     fund_metrics |-> fund_metrics]) :
                   expected \in ExpectedSet, fund_metrics \in FundMetricsSet,
                   header_metadata \in HeaderSet(aggregates)} : aggregates \in AggregateSet}
    \cup {Pending("analyze_barlist", [fund_key |-> fund_key, parsed |-> parsed, metrics |-> metrics]) :
             fund_key \in FundKeys, parsed \in ParseOutcomes, metrics \in AnalyzeMetricsSet}
    \cup {Pending("main", [funds |-> funds, inputs |-> inputs]) :
             funds \in FundLists, inputs \in [FundKeys -> FundInputs]}

InitVerify ==
    /\ disk = <<>>
    /\ delta = <<>>
    /\ now = 1
    /\ processed = <<>>
    /\ raised = None
    /\ pc = [p \in Procs |-> "idle"]
    /\ mem = [p \in Procs |-> <<>>]
    /\ call \in PendingCalls

call_aggregate_bars ==
    /\ IsPending("aggregate_bars")
    /\ call' = Returned(call[1], aggregate_bars(call[1].args.bars))
    /\ UNCHANGED storeVars

call_compute_expected_oz ==
    /\ IsPending("compute_expected_oz")
    /\ call' = Returned(call[1], compute_expected_oz(call[1].args.metrics))
    /\ UNCHANGED storeVars

call_build_verification ==
    /\ IsPending("build_verification")
    /\ LET a == call[1].args
       IN  call' = Returned(call[1], build_verification(a.aggregates, a.expected_oz, a.method,
                                                        a.header_metadata, a.fund_metrics))
    /\ UNCHANGED storeVars

call_analyze_barlist ==
    /\ IsPending("analyze_barlist")
    /\ LET a == call[1].args
       IN  call' = Returned(call[1], analyze_barlist(a.fund_key, a.parsed, a.metrics))
    /\ UNCHANGED storeVars

call_main ==
    /\ IsPending("main")
    /\ LET a == call[1].args
       IN  call' = Returned(call[1], main_results(a.funds, a.inputs))
    /\ UNCHANGED storeVars

NextVerify ==
    \/ call_aggregate_bars
    \/ call_compute_expected_oz
    \/ call_build_verification
    \/ call_analyze_barlist
    \/ call_main

SpecVerify == InitVerify /\ [][NextVerify]_vars

\* the last call was a call of op
CallOf(op) == call # <<>> /\ call[1].op = op /\ "ret" \in DOMAIN call[1]

Args == call[1].args

Ret == call[1].ret

\* d has the key k with a value other than None
Supplied(d, k) == d # NoneRec /\ k \in DOMAIN d /\ d[k] # NoneRec

\* 0 < x
Positive(x) == x.num > 0

(***************************************************************************)
(* C11.  For every expected_oz other than None and zero,                   *)
(* build_verification sets exactly one of the four band statuses from      *)
(* pct = (physical_oz - expected_oz) / expected_oz * 100, which is the     *)
(* difference_pct it reports: match_within_0.25pct iff |pct| <= 0.25,      *)
(* warning_within_1pct iff 0.25 < |pct| <= 1.0, overcollateralized_gt_1pct *)
(* iff pct > 1.0 and undercollateralized_gt_1pct iff pct < -1.0; so a pct  *)
(* of exactly 0.25 or -0.25 is a match and a pct of exactly -1.0 or 1.0 is *)
(* a warning.                                                              *)
(***************************************************************************)
\* 4 * |pct| <= 1 and |pct| <= 1, on the numerator and denominator of pct
AtMostQuarter(pct) == 4 * Abs(pct.num) <= pct.den

AtMostOne(pct) == Abs(pct.num) <= pct.den

C11_StatusBands ==
    (CallOf("build_verification") /\ Args.expected_oz # NoneRec /\ Args.expected_oz # Num(0))
    => LET physical_oz == Ret.physical_oz_from_bar_list
           pct == RatMul(RatDiv(RatSub(physical_oz, Args.expected_oz), Args.expected_oz), Num(100))
       IN  /\ Ret.difference_pct = pct
           /\ Ret.status \in BandStatuses
           /\ (Ret.status = MATCH)   <=> AtMostQuarter(pct)
           /\ (Ret.status = WARNING) <=> (~AtMostQuarter(pct) /\ AtMostOne(pct))
           /\ (Ret.status = OVER)    <=> pct.num > pct.den
           /\ (Ret.status = UNDER)   <=> pct.num < -pct.den

\* a call whose pct is exactly -1.0 has returned a warning
C11_Witness ==
    /\ CallOf("build_verification")
    /\ Ret.difference_pct = Num(-1)
    /\ Ret.status = WARNING

(***************************************************************************)
(* C12.  build_verification returns insufficient_fund_metrics exactly when *)
(* expected_oz is None or zero, and then difference_oz and difference_pct  *)
(* are None whatever the aggregate is; when expected_oz is a number other  *)
(* than zero, both differences are numbers and the status is one of the    *)
(* four band statuses.                                                     *)
(***************************************************************************)
C12_InsufficientIffNoExpected ==
    CallOf("build_verification")
    => LET unavailable == Args.expected_oz = NoneRec \/ Args.expected_oz = Num(0)
       IN  /\ (Ret.status = INSUFFICIENT) <=> unavailable
           /\ unavailable => (Ret.difference_oz = NoneRec /\ Ret.difference_pct = NoneRec)
           /\ ~unavailable => /\ Ret.difference_oz # NoneRec
                              /\ Ret.difference_pct # NoneRec
                              /\ Ret.difference_oz.den > 0
                              /\ Ret.difference_pct.den > 0
                              /\ Ret.status \in BandStatuses

\* a call with expected_oz = 0 and bars on the list has returned
C12_Witness ==
    /\ CallOf("build_verification")
    /\ Args.expected_oz = Num(0)
    /\ Positive(Ret.physical_oz_from_bar_list)
    /\ Ret.status = INSUFFICIENT
    /\ Ret.difference_pct = NoneRec

(***************************************************************************)
(* C13.  compute_expected_oz: when certificates_outstanding and            *)
(* entitlement_oz_per_certificate are both supplied the result is their    *)
(* product tagged certificates_x_entitlement, whatever the assets and the  *)
(* price are; otherwise, when total_assets_usd is supplied and             *)
(* silver_price_usd is positive, it is assets / price tagged               *)
(* assets_div_silver_price; otherwise it is (None, None).  The tag is None *)
(* exactly when the value is None.                                         *)
(***************************************************************************)
C13_ExpectedOzPriority ==
    CallOf("compute_expected_oz")
    => LET m        == Args.metrics
           by_certs == /\ Supplied(m, "certificates_outstanding")
                       /\ Supplied(m, "entitlement_oz_per_certificate")
           by_price == /\ Supplied(m, "total_assets_usd")
                       /\ Supplied(m, "silver_price_usd")
                       /\ Positive(m["silver_price_usd"])
       IN  /\ by_certs =>
                Ret = [value  |-> RatMul(m["certificates_outstanding"],
                                         m["entitlement_oz_per_certificate"]),
                       method |-> "certificates_x_entitlement"]
           /\ (~by_certs /\ by_price) =>
                Ret = [value  |-> RatDiv(m["total_assets_usd"], m["silver_price_usd"]),
                       method |-> "assets_div_silver_price"]
           /\ (~by_certs /\ ~by_price) => Ret = [value |-> NoneRec, method |-> None]
           /\ (Ret.method = None) <=> (Ret.value = NoneRec)

\* both routes were available, with different values, and the certificates won
C13_Witness ==
    /\ CallOf("compute_expected_oz")
    /\ Supplied(Args.metrics, "certificates_outstanding")
    /\ Supplied(Args.metrics, "entitlement_oz_per_certificate")
    /\ Supplied(Args.metrics, "total_assets_usd")
    /\ Supplied(Args.metrics, "silver_price_usd")
    /\ Positive(Args.metrics["silver_price_usd"])
    /\ Ret.method = "certificates_x_entitlement"
    /\ Ret.value # RatDiv(Args.metrics["total_assets_usd"], Args.metrics["silver_price_usd"])

(***************************************************************************)
(* C14.  The primary result of build_verification (status, difference_oz,  *)
(* difference_pct) depends on physical_oz and expected_oz only: the same   *)
(* call with any other header_metadata, or with any other fund_metrics,    *)
(* returns the same status and the same differences.                       *)
(***************************************************************************)
Primary(result) == <<result.status, result.difference_oz, result.difference_pct>>

C14_PrimaryIgnoresHeaderAndIssuer ==
    CallOf("build_verification")
    => /\ \A header_metadata \in HeaderSet(Args.aggregates) :
             Primary(build_verification(Args.aggregates, Args.expected_oz, Args.method,
                                        header_metadata, Args.fund_metrics)) = Primary(Ret)
       /\ \A fund_metrics \in FundMetricsSet :
             Primary(build_verification(Args.aggregates, Args.expected_oz, Args.method,
                                        Args.header_metadata, fund_metrics)) = Primary(Ret)

\* a call with a mismatching header and an issuer figure more than 1 % below
\* the bar list has returned a match
C14_Witness ==
    /\ CallOf("build_verification")
    /\ Ret.status = MATCH
    /\ Ret.internal_consistency # NoneRec
    /\ "fine_match" \in DOMAIN Ret.internal_consistency
    /\ ~Ret.internal_consistency.fine_match
    /\ "issuer_difference_pct" \in DOMAIN Ret
    /\ RatLT(Num(1), Ret.issuer_difference_pct)

(***************************************************************************)
(* C15.  Whenever fund_metrics supplies a positive wisdomtree_reported_oz, *)
(* the result of build_verification carries issuer_difference_oz =         *)
(* physical_oz - issuer_oz and issuer_difference_pct =                     *)
(* issuer_difference_oz / issuer_oz * 100, for every value of expected_oz, *)
(* None and zero included.                                                 *)
(***************************************************************************)
C15_IssuerCheckAlwaysPresent ==
    (/\ CallOf("build_verification")
     /\ Supplied(Args.fund_metrics, "wisdomtree_reported_oz")
     /\ Positive(Args.fund_metrics["wisdomtree_reported_oz"]))
    => LET issuer_oz == Args.fund_metrics["wisdomtree_reported_oz"]
           diff      == RatSub(Ret.physical_oz_from_bar_list, issuer_oz)
       IN  /\ "issuer_difference_oz" \in DOMAIN Ret
           /\ "issuer_difference_pct" \in DOMAIN Ret
           /\ Ret.issuer_difference_oz = diff
           /\ Ret.issuer_difference_pct = RatMul(RatDiv(diff, issuer_oz), Num(100))

(***************************************************************************)
(* C16.  internal_consistency is None when there is no header metadata     *)
(* (None or an empty dict); otherwise it holds a match flag for exactly    *)
(* the metrics the header declares, a declared 0 included: bar_count_match *)
(* is true iff the declared count equals the parsed bar count, gross_match *)
(* and fine_match are true iff |parsed - declared| < 0.01, strictly.  This *)
(* holds whether or not expected_oz is available.                          *)
(***************************************************************************)
\* |a - b| < 0.01
CloserThanHundredth(a, b) ==
    LET d == RatSub(a, b) IN 100 * Abs(d.num) < d.den

C16_ConsistencyFlags ==
    CallOf("build_verification")
    => LET h  == Args.header_metadata
           ic == Ret.internal_consistency
           a  == Args.aggregates
       IN  IF h = NoneRec \/ DOMAIN h = {}
           THEN ic = NoneRec
           ELSE /\ ic # NoneRec
                /\ ("bar_count_match" \in DOMAIN ic) <=> Supplied(h, "declared_bar_count")
                /\ ("gross_match" \in DOMAIN ic) <=> Supplied(h, "declared_total_gross_oz")
                /\ ("fine_match" \in DOMAIN ic) <=> Supplied(h, "declared_total_fine_oz")
                /\ Supplied(h, "declared_bar_count") =>
                      (ic.bar_count_match <=> h["declared_bar_count"] = Get(a, "bar_count", Num(0)))
                /\ Supplied(h, "declared_total_gross_oz") =>
                      (ic.gross_match <=>
                          CloserThanHundredth(Get(a, "total_gross_oz", Num(0)),
                                              h["declared_total_gross_oz"]))
                /\ Supplied(h, "declared_total_fine_oz") =>
                      (ic.fine_match <=>
                          CloserThanHundredth(Get(a, "total_fine_oz", Num(0)),
                                              h["declared_total_fine_oz"]))

\* with no expected_oz, a declared gross total exactly 0.01 oz away from the
\* parsed one has been flagged as a mismatch
C16_Witness ==
    /\ CallOf("build_verification")
    /\ Args.expected_oz = NoneRec
    /\ Supplied(Args.header_metadata, "declared_total_gross_oz")
    /\ RatAbs(RatSub(Ret.physical_gross_oz, Args.header_metadata["declared_total_gross_oz"]))
          = Rat(1, 100)
    /\ ~Ret.internal_consistency.gross_match

(***************************************************************************)
(* C17.  aggregate_bars: when at least one bar declares a positive fine_oz *)
(* total_fine_oz is the sum of the positive fine_oz values and             *)
(* fine_oz_computed_from_fineness is false; otherwise total_fine_oz is the *)
(* sum, over the bars with positive gross_oz, of gross_oz * fineness, the  *)
(* fineness being 1.0 for a bar whose fineness is missing or not positive, *)
(* and fine_oz_computed_from_fineness is true exactly when a bar entered   *)
(* that sum.                                                               *)
(***************************************************************************)
\* gross_oz * fineness, the fineness 1.0 if missing or not positive
GrossTimesFineness(bar) ==
    IF bar.fineness # NoneRec /\ Positive(bar.fineness)
    THEN RatMul(bar.gross_oz, bar.fineness)
    ELSE bar.gross_oz

C17_FineOzFallback ==
    CallOf("aggregate_bars")
    => LET bars        == Args.bars
           with_fine   == SelectSeq(bars, LAMBDA b : b.fine_oz # NoneRec /\ Positive(b.fine_oz))
           with_gross  == SelectSeq(bars, LAMBDA b : b.gross_oz # NoneRec /\ Positive(b.gross_oz))
       IN  IF with_fine # <<>>
           THEN /\ Ret.total_fine_oz = SumSeq([i \in 1..Len(with_fine) |-> with_fine[i].fine_oz])
                /\ ~Ret.fine_oz_computed_from_fineness
           ELSE /\ Ret.total_fine_oz =
                      SumSeq([i \in 1..Len(with_gross) |-> GrossTimesFineness(with_gross[i])])
                /\ Ret.fine_oz_computed_from_fineness <=> (with_gross # <<>>)

\* the fallback has summed a bar with an assay and a bar without one
C17_Witness ==
    /\ CallOf("aggregate_bars")
    /\ Ret.fine_oz_computed_from_fineness
    /\ \E i, j \in 1..Len(Args.bars) :
          /\ Args.bars[i].fineness = NoneRec
          /\ Args.bars[j].fineness # NoneRec
          /\ Positive(Args.bars[j].fineness)
          /\ Ret.total_fine_oz = RatAdd(Args.bars[i].gross_oz,
                                        RatMul(Args.bars[j].gross_oz, Args.bars[j].fineness))
          /\ Ret.total_fine_oz # Ret.total_gross_oz

(***************************************************************************)
(* C19.  When parse_bars_from_pdf raises, analyze_barlist returns a report *)
(* (it does not raise) with the one error "parse_failed: <message>", an    *)
(* empty bars list and the verification of an all-zero aggregate: status   *)
(* insufficient_fund_metrics when expected_oz is None or zero, otherwise   *)
(* undercollateralized_gt_1pct with difference_pct = -100.  In a run of    *)
(* main in which every requested fund has metrics, the loop ends normally  *)
(* with a report for every requested fund, and the report of a fund is the *)
(* one its own inputs give, whether or not another fund failed to parse.   *)
(***************************************************************************)
\* the report of a fund whose document was found and failed to parse
IsParseFailedReport(report, message, metrics) ==
    LET expected == compute_expected_oz(metrics).value
    IN  /\ "raised" \notin DOMAIN report
        /\ report.errors = <<"parse_failed: " \o message>>
        /\ report.bars = <<>>
        /\ report.parse = NoneRec
        /\ report.aggregates = NoneRec
        /\ report.verification.physical_oz_from_bar_list = Num(0)
        /\ report.verification.internal_consistency = NoneRec
        /\ IF expected = NoneRec \/ expected = Num(0)
           THEN /\ report.verification.status = INSUFFICIENT
                /\ report.verification.difference_pct = NoneRec
           ELSE /\ report.verification.status = UNDER
                /\ report.verification.difference_pct = Num(-100)

file_corrupted ==
    /\ disk' = <<CorruptFile>>
    /\ UNCHANGED <<delta, now, processed, raised>>
    /\ UNCHANGED otherVars

NextCorrupt ==
    \/ \E bars \in DeepBarLists, date_tag \in DateTags :
          /\ now <= MaxNow
          /\ update_bar_history(bars, date_tag)
    \/ reset_bar_history
    \/ file_corrupted

SpecCorrupt == Init /\ [][NextCorrupt]_vars

(***************************************************************************)
(* C18.  When the history file exists and cannot be decoded, a call of     *)
(* update_bar_history, whatever its bars and date_tag, ends with the       *)
(* decoding error, returns no delta and leaves the file as it is: nothing  *)
(* is saved (the clock that stamps a save is not read), so the call never  *)
(* continues from an empty store.                                          *)
(***************************************************************************)
C18_CorruptStoreIsFatal ==
    [][\A bars \in DeepBarLists, date_tag \in DateTags :
          (disk = <<CorruptFile>> /\ update_bar_history(bars, date_tag))
          => /\ raised' = "JSONDecodeError"
             /\ delta' = <<>>
             /\ disk' = <<CorruptFile>>
             /\ now' = now]_vars

\* a store that held snapshots was corrupted, and a call on it has failed
C18_Witness ==
    /\ disk = <<CorruptFile>>
    /\ processed # <<>>
    /\ raised = "JSONDecodeError"
    /\ delta = <<>>

(***************************************************************************)
(* SpecRace: after some calls of update_bar_history made one at a time,    *)
(* two processes call it once each on the same fund.  Such a call is two   *)
(* steps: the load of line 138, and everything after it (lines 140-202,    *)
(* with the save of line 201 when the call is not a repeat), which works   *)
(* on the history the call loaded.  A save is one step: the file holds the *)
(* last history written, in full.  The locals of a finished call are kept  *)
(* in mem.                                                                 *)
(***************************************************************************)
RaceBarLists == {<<>>, <<Bar1>>, <<Bar4>>}

\* variant: the call reads the file again when it is about to save
history_in_use_reloaded(loaded, d) == load_bar_history(d)

\* lines 140-202 work on the local variable history, loaded at line 138
history_in_use(loaded, d) == loaded

\* history = load_bar_history(fund_key)
begin_update(p, bars, date_tag) ==
    /\ pc[p] = "idle"
    /\ IF load_raises(disk)
       THEN /\ raised' = json_load(disk[1]).raised
            /\ delta' = <<>>
            /\ pc' = [pc EXCEPT ![p] = "done"]
            /\ UNCHANGED mem
       ELSE /\ mem' = [mem EXCEPT ![p] = <<[history  |-> load_bar_history(disk),
                                            bars     |-> bars,
                                            date_tag |-> date_tag,
                                            applied  |-> processed]>>]
            /\ pc' = [pc EXCEPT ![p] = "loaded"]
            /\ UNCHANGED <<raised, delta>>
    /\ UNCHANGED <<disk, now, processed, call>>

\* the rest of the call
end_update(p) ==
    /\ pc[p] = "loaded"
    /\ LET m == mem[p][1]
       IN  finish_update(history_in_use(m.history, disk), m.bars, m.date_tag, m.applied)
    /\ raised' = None
    /\ pc' = [pc EXCEPT ![p] = "done"]
    /\ UNCHANGED <<mem, call>>

\* an earlier call, made before either process starts
earlier_update ==
    /\ \A p \in Procs : pc[p] = "idle"
    /\ now < MaxNow
    /\ \E bars \in RaceBarLists, date_tag \in DateTags : update_bar_history(bars, date_tag)

NextRace ==
    \/ earlier_update
    \/ \E p \in Procs :
          \/ \E bars \in RaceBarLists, date_tag \in DeepDateTags : begin_update(p, bars, date_tag)
          \/ end_update(p)

SpecRace == Init /\ [][NextRace]_vars

(***************************************************************************)
(* C20.  When two calls with two different new date_tags have both loaded  *)
(* the store before either saved, the file left after both is the one the  *)
(* last saver computed from the history it loaded: snapshots is the loaded *)
(* list plus the last saver's date_tag, the other call's date_tag is       *)
(* missing; the entries are those of the loaded history and of the last    *)
(* saver's bars, each with the appearances of the loaded history plus the  *)
(* last saver's own, so the other call's entry changes are lost.  The file *)
(* is never a merge of the two results.                                    *)
(***************************************************************************)
Local(p) == mem[p][1]

\* both calls are over, they loaded the same store, and their date_tags are
\* two different ones that store did not have: each loaded before the other
\* saved, or it would have loaded the other's date_tag
BothLoadedBeforeEitherSaved ==
    /\ \A p \in Procs : pc[p] = "done" /\ mem[p] # <<>>
    /\ \A p, q \in Procs :
          /\ Local(p).history.snapshots = Local(q).history.snapshots
          /\ Local(p).history.bars = Local(q).history.bars
          /\ Local(p).date_tag \notin SeqRange(Local(q).history.snapshots)
          /\ p # q => Local(p).date_tag # Local(q).date_tag

\* the process whose save was the last one
LastSaver == CHOOSE p \in Procs : Local(p).date_tag = Last(processed).date_tag

C20_LastWriterWins ==
    BothLoadedBeforeEitherSaved
    => LET m       == Local(LastSaver)
           loaded  == m.history
           written == disk[1]
       IN  /\ written.snapshots = Append(loaded.snapshots, m.date_tag)
           /\ \A q \in Procs \ {LastSaver} :
                 Local(q).date_tag \notin SeqRange(written.snapshots)
           /\ DOMAIN written.bars = (DOMAIN loaded.bars) \cup KeysOf(m.bars)
           /\ \A k \in DOMAIN written.bars :
                 /\ written.bars[k].appearances =
                       (IF k \in DOMAIN loaded.bars THEN loaded.bars[k].appearances ELSE <<>>)
                       \o (IF k \in KeysOf(m.bars) THEN <<m.date_tag>> ELSE <<>>)
                 /\ (k \notin KeysOf(m.bars) /\ loaded.bars[k].status = "present")
                       => written.bars[k].status = "removed"
           /\ written.bars = merged_history(loaded, CurrentKeys(m.bars), m.date_tag).bars

\* on a store that had a snapshot, the two calls have saved, and the bar
\* that only the first saver listed has no entry in the file
C20_Witness ==
    /\ BothLoadedBeforeEitherSaved
    /\ Local(LastSaver).history.snapshots # <<>>
    /\ \E q \in Procs \ {LastSaver} :
          \E k \in KeysOf(Local(q).bars) : k \notin DOMAIN bars_of(disk)

(***************************************************************************)
(* Bar-list line parsers of src/verify_silver_etcs.py.  A Python str is a  *)
(* string; its characters are read with SubSeq.  The text of a PDF is      *)
(* ASCII here: \s is the ASCII whitespace and \d the ASCII digits.         *)
(***************************************************************************)
Digits == {"0", "1", "2", "3", "4", "5", "6", "7", "8", "9"}

Whitespace == {" ", "\t", "\n", "\r", "\f"}

\* s[i - 1] of Python, or "" when there is no such character
At(s, i) == IF i \in 1..Len(s) THEN SubSeq(s, i, i) ELSE ""

\* s[i - 1 : j] of Python, 1 <= i: a slice ends where the string ends
Slice(s, i, j) ==
    LET end == IF j > Len(s) THEN Len(s) ELSE j
    IN  IF i > end THEN "" ELSE SubSeq(s, i, end)

IsDigit(c) == c \in Digits

IsSpace(c) == c \in Whitespace

\* the first position from i on that holds no whitespace (Len(s) + 1 if none)
RECURSIVE SkipSpace(_, _)
SkipSpace(s, i) == IF IsSpace(At(s, i)) THEN SkipSpace(s, i + 1) ELSE i

\* the first position from i on that holds whitespace or ends the string
RECURSIVE SkipWord(_, _)
SkipWord(s, i) == IF i > Len(s) \/ IsSpace(At(s, i)) THEN i ELSE SkipWord(s, i + 1)

\* the last position up to i that holds no whitespace (0 if none)
RECURSIVE SkipSpaceBack(_, _)
SkipSpaceBack(s, i) == IF IsSpace(At(s, i)) THEN SkipSpaceBack(s, i - 1) ELSE i

\* str.strip()
strip(s) == Slice(s, SkipSpace(s, 1), SkipSpaceBack(s, Len(s)))

\* str.split(): the maximal runs of non-whitespace characters, in order
RECURSIVE split_from(_, _)
split_from(s, i) ==
    LET start == SkipSpace(s, i)
        end   == SkipWord(s, start)
    IN  IF start > Len(s) THEN <<>>
        ELSE <<Slice(s, start, end - 1)>> \o split_from(s, end)

split(s) == split_from(s, 1)

\* " ".join(tokens)
RECURSIVE join(_)
join(tokens) ==
    IF tokens = <<>> THEN ""
    ELSE IF Len(tokens) = 1 THEN tokens[1]
    ELSE tokens[1] \o " " \o join(Tail(tokens))

\* x or None, for a str x
OrNone(x) == IF x = "" THEN None ELSE x

\* re.search(r"\d", token)
has_digit(token) == \E i \in 1..Len(token) : IsDigit(At(token, i))

\* tokens[i:] of Python, i counted from 0
From(tokens, i) == SubSeq(tokens, i + 1, Len(tokens))

\* tokens[:i] of Python, i counted from 0
Upto(tokens, i) == SubSeq(tokens, 1, i)

\* a refiner walk that takes every digit-free token, not only the trailing run
RECURSIVE refiner_walk_no_break(_, _, _)
refiner_walk_no_break(tokens, i, refiner_start) ==
    IF i < 0 THEN refiner_start
    ELSE IF ~has_digit(tokens[i + 1]) THEN refiner_walk_no_break(tokens, i - 1, i)
    ELSE refiner_walk_no_break(tokens, i - 1, refiner_start)

\* the loop of _split_serial_refiner: i runs from the last token to the left
\* (indices counted from 0) and stops at the first token with a digit
RECURSIVE refiner_walk(_, _, _)
refiner_walk(tokens, i, refiner_start) ==
    IF i < 0 THEN refiner_start
    ELSE IF ~has_digit(tokens[i + 1]) THEN refiner_walk(tokens, i - 1, i)
    ELSE refiner_start

\* _split_serial_refiner(prefix): <<serial_number, refiner>>
_split_serial_refiner(prefix) ==
    LET tokens == split(prefix)
        refiner_start == refiner_walk(tokens, Len(tokens) - 1, Len(tokens))
    IN  IF tokens = <<>> THEN <<"", None>>
        ELSE IF Len(tokens) = 1 THEN <<tokens[1], None>>
        ELSE IF refiner_start = 0
             THEN <<tokens[1], OrNone(join(From(tokens, 1)))>>
        ELSE <<join(Upto(tokens, refiner_start)), OrNone(join(From(tokens, refiner_start)))>>

\* the loop of _split_invesco_brand_serial: a token with a digit moves
\* serial_start to i; a token of at most one character moves it too when
\* serial_start is i + 1; any other token ends the loop
RECURSIVE serial_walk(_, _, _)
serial_walk(tokens, i, serial_start) ==
    IF i < 0 THEN serial_start
    ELSE IF has_digit(tokens[i + 1]) THEN serial_walk(tokens, i - 1, i)
    ELSE IF Len(tokens[i + 1]) <= 1
         THEN IF serial_start = i + 1 THEN serial_walk(tokens, i - 1, i)
              ELSE serial_start
    ELSE serial_start

\* _split_invesco_brand_serial(prefix): <<brand, serial_number>>
_split_invesco_brand_serial(prefix) ==
    LET tokens == split(prefix)
        serial_start == serial_walk(tokens, Len(tokens) - 1, Len(tokens))
    IN  IF tokens = <<>> THEN <<"", "">>
        ELSE IF Len(tokens) = 1 THEN <<"", tokens[1]>>
        ELSE IF serial_start = 0 THEN <<tokens[1], join(From(tokens, 1))>>
        ELSE <<join(Upto(tokens, serial_start)), join(From(tokens, serial_start))>>

(***************************************************************************)
(* The regular expressions of the line parsers, each matched the way the   *)
(* Python re module matches it (leftmost, greedy).  A line holds no line   *)
(* break: the callers take lines from str.splitlines().                    *)
(***************************************************************************)
\* the first position from i on that holds no digit
RECURSIVE SkipDigits(_, _)
SkipDigits(s, i) == IF IsDigit(At(s, i)) THEN SkipDigits(s, i + 1) ELSE i

\* int(text) for a text of digits
RECURSIVE IntOf(_)
IntOf(text) ==
    IF text = "" THEN 0
    ELSE 10 * IntOf(Slice(text, 1, Len(text) - 1))
         + (CHOOSE d \in 0..9 : At("0123456789", d + 1) = At(text, Len(text)))

RECURSIVE Pow10(_)
Pow10(n) == IF n = 0 THEN 1 ELSE 10 * Pow10(n - 1)

\* raw.replace(",", "")
RECURSIVE without_commas(_)
without_commas(raw) ==
    IF raw = "" THEN ""
    ELSE (IF At(raw, 1) = "," THEN "" ELSE At(raw, 1)) \o without_commas(Slice(raw, 2, Len(raw)))

\* clean_number(raw) for the texts the parsers hand it: digits, commas and
\* points.  float() reads digits with at most one point; any other such text
\* raises ValueError and gives None.
clean_number(raw) ==
    LET token == strip(without_commas(raw))
        dot   == SkipDigits(token, 1)
        whole == Slice(token, 1, dot - 1)
        frac  == Slice(token, dot + 1, Len(token))
    IN  IF token \in {"", "-", "--"} THEN NoneRec
        ELSE IF dot > Len(token) THEN Num(IntOf(token))
        ELSE IF At(token, dot) = "." /\ SkipDigits(token, dot + 1) > Len(token)
                /\ whole \o frac # ""
             THEN Rat(IntOf(whole \o frac), Pow10(Len(frac)))
        ELSE NoneRec

\* (?:,\d{3})* from position i: the position after the last group
RECURSIVE comma_groups(_, _)
comma_groups(s, i) ==
    IF At(s, i) = "," /\ SkipDigits(s, i + 1) >= i + 4 THEN comma_groups(s, i + 4) ELSE i

\* \d{1,3}(?:,\d{3})*\.\d{3} at position i: the position after the match, 0
\* if there is none
weight_end(s, i) ==
    LET run   == SkipDigits(s, i) - i
        point == comma_groups(s, i + run)
    IN  IF run \in 1..3 /\ At(s, point) = "." /\ SkipDigits(s, point + 1) >= point + 4
        THEN point + 4 ELSE 0

\* _WEIGHT_CLUSTER_RE at position i: [start, end, groups] or NoneRec
weight_cluster_at(s, i) ==
    LET gross_end   == weight_end(s, i)
        fine_start  == SkipSpace(s, gross_end)
        fine_end    == weight_end(s, fine_start)
        assay_start == SkipSpace(s, fine_end)
    IN  IF /\ gross_end # 0 /\ fine_start > gross_end
           /\ fine_end # 0 /\ assay_start > fine_end
           /\ IsDigit(At(s, assay_start)) /\ At(s, assay_start + 1) = "."
           /\ SkipDigits(s, assay_start + 2) >= assay_start + 6
        THEN [start |-> i, end |-> assay_start + 6,
              groups |-> <<Slice(s, i, gross_end - 1), Slice(s, fine_start, fine_end - 1),
                           Slice(s, assay_start, assay_start + 5)>>]
        ELSE NoneRec

RECURSIVE weight_cluster_from(_, _)
weight_cluster_from(s, i) ==
    IF i > Len(s) THEN NoneRec
    ELSE IF weight_cluster_at(s, i) # NoneRec THEN weight_cluster_at(s, i)
    ELSE weight_cluster_from(s, i + 1)

\* _WEIGHT_CLUSTER_RE.search(s)
_WEIGHT_CLUSTER_RE(s) == weight_cluster_from(s, 1)

UpperCase == "ABCDEFGHIJKLMNOPQRSTUVWXYZ"

LowerCase == "abcdefghijklmnopqrstuvwxyz"

\* text with every character found in from replaced by the one of to
RECURSIVE translate(_, _, _)
translate(text, from, to) ==
    IF text = "" THEN ""
    ELSE LET c == At(text, 1)
             hit == {i \in 1..Len(from) : At(from, i) = c}
         IN  (IF hit = {} THEN c ELSE At(to, CHOOSE i \in hit : TRUE))
             \o translate(Slice(text, 2, Len(text)), from, to)

\* str.lower() and str.upper()
lower(text) == translate(text, UpperCase, LowerCase)

upper(text) == translate(text, LowerCase, UpperCase)

\* the alternatives of _SKIP_PATTERNS: each a list of words that \s+
\* separates; the word \d stands for one digit
_SKIP_PATTERNS ==
    {<<"bar", "number">>, <<"refiner", "long">>, <<"gross", "weight">>, <<"fine", "weight">>,
     <<"bar", "assay">>, <<"vault", "name">>, <<"client", "silver">>, <<"stock", "holdings">>,
     <<"allocated", "a/c">>, <<"total", "allocated">>, <<"end", "of", "silver">>, <<"c.o.b">>,
     <<"page", "\\d">>, <<"hbeu">>, <<"law", "debenture">>}

\* the words match the lower-case text at position i
RECURSIVE words_at(_, _, _)
words_at(words, text, i) ==
    LET word == words[1]
        end  == IF word = "\\d" THEN i + 1 ELSE i + Len(word)
        here == IF word = "\\d" THEN IsDigit(At(text, i))
                ELSE Slice(text, i, end - 1) = word
    IN  /\ end - 1 <= Len(text)
        /\ here
        /\ Len(words) > 1
              => /\ SkipSpace(text, end) > end
                 /\ words_at(Tail(words), text, SkipSpace(text, end))

\* _SKIP_PATTERNS.search(line), the patterns being case-insensitive
is_skipped(line) ==
    LET text == lower(line)
    IN  \E words \in _SKIP_PATTERNS : \E i \in 1..Len(text) : words_at(words, text, i)

\* the suffix after the weight cluster: [year, vault]; _SUFFIX_NUM_RE is
\* ^\s*(\d+)\s+(.+)$.  The year, an int or None, is written Num(year) or
\* NoneRec.
year_and_vault(suffix) ==
    LET start  == SkipSpace(suffix, 1)
        digits == SkipDigits(suffix, start)
        rest   == SkipSpace(suffix, digits)
        is_num == digits > start /\ rest > digits /\ Len(suffix) > digits
        num_val == IntOf(Slice(suffix, start, digits - 1))
        group2 == IF rest > Len(suffix) THEN Slice(suffix, Len(suffix), Len(suffix))
                  ELSE Slice(suffix, rest, Len(suffix))
    IN  IF suffix = "" THEN [year |-> NoneRec, vault |-> None]
        ELSE IF is_num
             THEN [year  |-> IF 1900 <= num_val /\ num_val <= 2100 THEN Num(num_val) ELSE NoneRec,
                   vault |-> OrNone(strip(group2))]
        ELSE [year |-> NoneRec, vault |-> suffix]

BarRecord(serial_number, refiner, gross_oz, fine_oz, fineness, vault, year, source_page, raw_line) ==
    [serial_number |-> serial_number, refiner |-> refiner, gross_oz |-> gross_oz,
     fine_oz |-> fine_oz, fineness |-> fineness, vault |-> vault, year |-> year,
     source_page |-> source_page, raw_line |-> raw_line]

\* a WisdomTree line parser that emits a record whatever the split returned
_parse_wisdomtree_line_unchecked(line, page_num) ==
    LET match  == _WEIGHT_CLUSTER_RE(line)
        prefix == strip(Slice(line, 1, match.start - 1))
        parts  == _split_serial_refiner(prefix)
        tail   == year_and_vault(strip(Slice(line, match.end, Len(line))))
    IN  IF is_skipped(line) THEN NoneRec
        ELSE IF match = NoneRec THEN NoneRec
        ELSE BarRecord(parts[1], parts[2], clean_number(match.groups[1]),
                       clean_number(match.groups[2]), clean_number(match.groups[3]),
                       tail.vault, tail.year, page_num, line)

\* _parse_wisdomtree_line(line, page_num): a BarRecord or NoneRec (None)
_parse_wisdomtree_line(line, page_num) ==
    LET match  == _WEIGHT_CLUSTER_RE(line)
        prefix == strip(Slice(line, 1, match.start - 1))
        parts  == _split_serial_refiner(prefix)
        tail   == year_and_vault(strip(Slice(line, match.end, Len(line))))
    IN  IF is_skipped(line) THEN NoneRec
        ELSE IF match = NoneRec THEN NoneRec
        ELSE IF prefix = "" THEN NoneRec
        ELSE IF parts[1] = "" THEN NoneRec
        ELSE BarRecord(parts[1], parts[2], clean_number(match.groups[1]),
                       clean_number(match.groups[2]), clean_number(match.groups[3]),
                       tail.vault, tail.year, page_num, line)

\* what follows the prefix in _INVESCO_LINE_RE, tried from position i:
\* \s+1000\s+oz\s+(\d{3,4})\s+(weight)\s+(weight)\s+(.+)$
invesco_fields_at(s, i) ==
    LET shape       == SkipSpace(s, i)
        oz          == SkipSpace(s, shape + 4)
        assay_start == SkipSpace(s, oz + 2)
        assay_end   == SkipDigits(s, assay_start)
        gross_start == SkipSpace(s, assay_end)
        gross_end   == weight_end(s, gross_start)
        fine_start  == SkipSpace(s, gross_end)
        fine_end    == weight_end(s, fine_start)
        vault_start == SkipSpace(s, fine_end)
    IN  IF /\ shape > i /\ Slice(s, shape, shape + 3) = "1000"
           /\ oz > shape + 4 /\ Slice(s, oz, oz + 1) = "oz"
           /\ assay_start > oz + 2 /\ (assay_end - assay_start) \in {3, 4}
           /\ gross_start > assay_end /\ gross_end # 0
           /\ fine_start > gross_end /\ fine_end # 0
           /\ vault_start > fine_end
           /\ (vault_start <= Len(s) \/ vault_start > fine_end + 1)
        THEN <<Slice(s, assay_start, assay_end - 1), Slice(s, gross_start, gross_end - 1),
               Slice(s, fine_start, fine_end - 1),
               IF vault_start <= Len(s) THEN Slice(s, vault_start, Len(s))
               ELSE Slice(s, Len(s), Len(s))>>
        ELSE NoneRec

\* ^(.+?) of _INVESCO_LINE_RE: the shortest prefix of n or more characters
\* that the fields follow
RECURSIVE invesco_match_from(_, _)
invesco_match_from(s, n) ==
    IF n >= Len(s) THEN NoneRec
    ELSE IF invesco_fields_at(s, n + 1) # NoneRec
         THEN [groups |-> <<Slice(s, 1, n)>> \o invesco_fields_at(s, n + 1)]
    ELSE invesco_match_from(s, n + 1)

\* _INVESCO_LINE_RE.match(line)
_INVESCO_LINE_RE(line) == invesco_match_from(line, 1)

\* an Invesco line parser that emits a record whatever the split returned
_parse_invesco_line_unchecked(line, page_num) ==
    LET match  == _INVESCO_LINE_RE(line)
        prefix == strip(match.groups[1])
        parts  == _split_invesco_brand_serial(prefix)
    IN  IF match = NoneRec THEN NoneRec
        ELSE BarRecord(parts[2], OrNone(parts[1]), clean_number(match.groups[3]),
                       clean_number(match.groups[4]), Rat(IntOf(match.groups[2]), 10000),
                       OrNone(strip(match.groups[5])), NoneRec, page_num, line)

\* _parse_invesco_line(line, page_num): a BarRecord or NoneRec (None)
_parse_invesco_line(line, page_num) ==
    LET match  == _INVESCO_LINE_RE(line)
        prefix == strip(match.groups[1])
        parts  == _split_invesco_brand_serial(prefix)
    IN  IF match = NoneRec THEN NoneRec
        ELSE IF prefix = "" THEN NoneRec
        ELSE IF parts[2] = "" THEN NoneRec
        ELSE BarRecord(parts[2], OrNone(parts[1]), clean_number(match.groups[3]),
                       clean_number(match.groups[4]), Rat(IntOf(match.groups[2]), 10000),
                       OrNone(strip(match.groups[5])), NoneRec, page_num, line)

\* c is one of the characters of chars
OneOf(c, chars) == \E i \in 1..Len(chars) : At(chars, i) = c

\* a character \b counts as part of a word: [A-Za-z0-9_]
IsWord(c) == IsDigit(c) \/ c = "_" \/ OneOf(c, UpperCase) \/ OneOf(c, LowerCase)

\* tok in text
contains(text, tok) == \E i \in 1..Len(text) : Slice(text, i, i + Len(tok) - 1) = tok

ignore_tokens ==
    {"serial", "refiner", "gross", "fine", "fineness", "bar list", "page ", "invesco",
     "wisdomtree", "isin"}

\* the first position from i on whose character is not one of [A-Z0-9\-/.]
RECURSIVE SkipSerialChars(_, _)
SkipSerialChars(s, i) ==
    IF IsDigit(At(s, i)) \/ OneOf(At(s, i), UpperCase) \/ At(s, i) \in {"-", "/", "."}
    THEN SkipSerialChars(s, i + 1) ELSE i

\* the first match of [A-Z0-9][A-Z0-9\-/.]{3,} in text from position i on
\* that holds a digit, the matches taken as re.findall takes them; None if
\* there is none
RECURSIVE serial_candidate(_, _)
serial_candidate(text, i) ==
    LET end == SkipSerialChars(text, i + 1)
    IN  IF i > Len(text) THEN None
        ELSE IF (IsDigit(At(text, i)) \/ OneOf(At(text, i), UpperCase)) /\ end >= i + 4
             THEN IF has_digit(Slice(text, i, end - 1)) THEN Slice(text, i, end - 1)
                  ELSE serial_candidate(text, end)
        ELSE serial_candidate(text, i + 1)

\* the matches of \b\d{2,6}(?:[.,]\d{1,4})?\b in line from position i on
RECURSIVE weight_tokens(_, _)
weight_tokens(line, i) ==
    LET point    == SkipDigits(line, i)
        frac_end == SkipDigits(line, point + 1)
        starts   == IsDigit(At(line, i)) /\ ~IsWord(At(line, i - 1))
                    /\ (point - i) \in 2..6
    IN  IF i > Len(line) THEN <<>>
        ELSE IF starts /\ At(line, point) \in {".", ","}
                /\ (frac_end - point - 1) \in 1..4 /\ ~IsWord(At(line, frac_end))
             THEN <<Slice(line, i, frac_end - 1)>> \o weight_tokens(line, frac_end)
        ELSE IF starts /\ ~IsWord(At(line, point))
             THEN <<Slice(line, i, point - 1)>> \o weight_tokens(line, point)
        ELSE weight_tokens(line, i + 1)

\* the values of the tokens that lie between 100 and 1200
RECURSIVE plausible_weights(_)
plausible_weights(tokens) ==
    IF tokens = <<>> THEN <<>>
    ELSE LET parsed == clean_number(tokens[1])
         IN  (IF parsed # NoneRec /\ RatLE(Num(100), parsed) /\ RatLE(parsed, Num(1200))
              THEN <<parsed>> ELSE <<>>)
             \o plausible_weights(Tail(tokens))

\* sorted(values)
RECURSIVE sorted_values(_)
sorted_values(values) ==
    IF values = <<>> THEN <<>>
    ELSE LET least == CHOOSE i \in 1..Len(values) :
                          \A j \in 1..Len(values) : RatLE(values[i], values[j])
         IN  <<values[least]>>
             \o sorted_values(SubSeq(values, 1, least - 1) \o SubSeq(values, least + 1, Len(values)))

\* the first match of \b0\.\d{3,5}\b in line from position i on whose value
\* lies between 0.85 and 1.0; NoneRec if there is none
RECURSIVE fineness_candidate(_, _)
fineness_candidate(line, i) ==
    LET end == SkipDigits(line, i + 2)
        p   == clean_number(Slice(line, i, end - 1))
    IN  IF i > Len(line) THEN NoneRec
        ELSE IF At(line, i) = "0" /\ ~IsWord(At(line, i - 1)) /\ At(line, i + 1) = "."
                /\ (end - i - 2) \in 3..5 /\ ~IsWord(At(line, end))
             THEN IF RatLE(Rat(85, 100), p) /\ RatLE(p, Num(1)) THEN p
                  ELSE fineness_candidate(line, end)
        ELSE fineness_candidate(line, i + 1)

\* a generic line parser that takes the first candidate, with or without a digit
RECURSIVE serial_candidate_any(_, _)
serial_candidate_any(text, i) ==
    LET end == SkipSerialChars(text, i + 1)
    IN  IF i > Len(text) THEN None
        ELSE IF (IsDigit(At(text, i)) \/ OneOf(At(text, i), UpperCase)) /\ end >= i + 4
             THEN Slice(text, i, end - 1)
        ELSE serial_candidate_any(text, i + 1)

\* _parse_generic_line(line, page_num): a BarRecord or NoneRec (None)
_parse_generic_line(line, page_num) ==
    LET text   == join(split(line))
        serial == serial_candidate(upper(text), 1)
        m      == _WEIGHT_CLUSTER_RE(line)
        numeric_values == sorted_values(plausible_weights(weight_tokens(line, 1)))
        count  == Len(numeric_values)
        lowered == lower(text)
    IN  IF text = "" THEN NoneRec
        ELSE IF \E tok \in ignore_tokens : contains(lowered, tok) THEN NoneRec
        ELSE IF serial = None THEN NoneRec
        ELSE IF m # NoneRec
             THEN BarRecord(serial, None, clean_number(m.groups[1]), clean_number(m.groups[2]),
                            clean_number(m.groups[3]), None, NoneRec, page_num, line)
        ELSE BarRecord(serial, None,
                       IF count >= 1 THEN numeric_values[count] ELSE NoneRec,
                       IF count >= 2 THEN numeric_values[count - 1] ELSE NoneRec,
                       fineness_candidate(line, 1), None, NoneRec, page_num, line)

(***************************************************************************)
(* parse_bars_from_pdf.  The PDF is what the text extraction gives for     *)
(* it: [pages |-> the text of each page]; pdfplumber and pypdf are taken   *)
(* to extract the same text.  The header_metadata and file entries of      *)
(* parse_meta are left out: step 2 of the function does not read them.     *)
(***************************************************************************)
\* _detect_pdf_format(first_page_text)
_detect_pdf_format(first_page_text) ==
    LET lowered == lower(first_page_text)
    IN  IF contains(lowered, "client silver stock holdings") \/ contains(lowered, "wisdomtree")
           \/ contains(lowered, "law debenture")
        THEN "wisdomtree"
        ELSE IF contains(lowered, "invesco") \/ contains(lowered, "jpmorgan") THEN "invesco"
        ELSE "generic"

\* the line boundaries str.splitlines() knows among the characters of a text
LineBreaks == {"\n", "\r", "\f"}

\* the first position from i on that holds a line boundary or ends the text
RECURSIVE SkipLine(_, _)
SkipLine(s, i) == IF i > Len(s) \/ At(s, i) \in LineBreaks THEN i ELSE SkipLine(s, i + 1)

\* [seg.strip() for seg in page_text.splitlines() if seg.strip()], from position i on
RECURSIVE page_lines_from(_, _)
page_lines_from(page_text, i) ==
    LET end == SkipLine(page_text, i)
        seg == strip(Slice(page_text, i, end - 1))
    IN  IF i > Len(page_text) THEN <<>>
        ELSE (IF seg = "" THEN <<>> ELSE <<seg>>) \o page_lines_from(page_text, end + 1)

page_lines(page_text) == page_lines_from(page_text, 1)

\* the line parser of a format
parse_line(fmt, line, page_index) ==
    IF fmt = "invesco" THEN _parse_invesco_line(line, page_index)
    ELSE IF fmt = "wisdomtree" THEN _parse_wisdomtree_line(line, page_index)
    ELSE _parse_generic_line(line, page_index)

\* a dedup key that is the identity key for every format
dedup_key_identity(fmt, line, record) ==
    record.serial_number \o "|" \o OrEmpty(record.refiner)

\* dedup_key of a parsed line
dedup_key(fmt, line, record) ==
    IF fmt \in {"invesco", "wisdomtree"} THEN line
    ELSE record.serial_number \o "|" \o OrEmpty(record.refiner)

\* the body of the loop over the lines of a page for one line and the record
\* its parser returned; acc is [bars, seen_keys, parse_meta]
add_line(fmt, line, record, acc) ==
    LET counted == [acc EXCEPT !.parse_meta.candidate_lines = @ + 1]
        key     == dedup_key(fmt, line, record)
    IN  IF record = NoneRec THEN counted
        ELSE IF key \in acc.seen_keys
             THEN [counted EXCEPT !.parse_meta.duplicates_skipped = @ + 1]
        ELSE [counted EXCEPT !.bars = Append(@, record),
                             !.seen_keys = @ \cup {key},
                             !.parse_meta.accepted_rows = @ + 1]

\* the loop over the lines of a page
RECURSIVE parse_lines(_, _, _, _)
parse_lines(fmt, lines, page_index, acc) ==
    IF lines = <<>> THEN acc
    ELSE parse_lines(fmt, Tail(lines), page_index,
                     add_line(fmt, lines[1], parse_line(fmt, lines[1], page_index), acc))

\* the loop over the pages, page_index counted from 1
RECURSIVE parse_pages(_, _, _, _)
parse_pages(fmt, pages, page_index, acc) ==
    IF page_index > Len(pages) THEN acc
    ELSE parse_pages(fmt, pages, page_index + 1,
                     parse_lines(fmt, page_lines(pages[page_index]), page_index, acc))

\* printable characters in the order of their code points (the quotes, the
\* backslash and the backtick are left out)
Ascii == " !#$%&()*+,-./0123456789:;<=>?@ABCDEFGHIJKLMNOPQRSTUVWXYZ[]^_abcdefghijklmnopqrstuvwxyz{|}~"

\* where c stands in that order
Ord(c) == CHOOSE i \in 1..Len(Ascii) : At(Ascii, i) = c

\* a <= b for two str of printable characters
RECURSIVE str_le(_, _)
str_le(a, b) ==
    IF a = "" THEN TRUE
    ELSE IF b = "" THEN FALSE
    ELSE IF At(a, 1) = At(b, 1) THEN str_le(Slice(a, 2, Len(a)), Slice(b, 2, Len(b)))
    ELSE Ord(At(a, 1)) < Ord(At(b, 1))

\* (a.serial_number, a.refiner or "", a.year or 0) <= the same of b
sort_key_le(a, b) ==
    LET year_of(bar) == IF bar.year = NoneRec THEN 0 ELSE bar.year.num
    IN  IF a.serial_number # b.serial_number THEN str_le(a.serial_number, b.serial_number)
        ELSE IF OrEmpty(a.refiner) # OrEmpty(b.refiner)
             THEN str_le(OrEmpty(a.refiner), OrEmpty(b.refiner))
        ELSE year_of(a) <= year_of(b)

\* bars.sort(key=...): a stable sort
RECURSIVE sort_bars(_)
sort_bars(bars) ==
    IF bars = <<>> THEN <<>>
    ELSE LET rest   == sort_bars(SubSeq(bars, 1, Len(bars) - 1))
             bar    == bars[Len(bars)]
             before == {i \in 0..Len(rest) : \A j \in 1..i : sort_key_le(rest[j], bar)}
             at     == CHOOSE i \in before : \A j \in before : j <= i
         IN  SubSeq(rest, 1, at) \o <<bar>> \o SubSeq(rest, at + 1, Len(rest))

\* bars, seen_keys and parse_meta before the first page
no_lines_yet(fmt, pdf) ==
    [bars |-> <<>>, seen_keys |-> {},
     parse_meta |-> [format |-> fmt, pages |-> Len(pdf.pages),
                     candidate_lines |-> 0, accepted_rows |-> 0,
                     duplicates_skipped |-> 0]]

\* step 3 and the return value, done being what the loop over the pages left
sorted_result(done) == <<sort_bars(done.bars), done.parse_meta>>

\* step 2 on, the format being known
parse_bars_as(fmt, pdf) == sorted_result(parse_pages(fmt, pdf.pages, 1, no_lines_yet(fmt, pdf)))

\* parse_bars_from_pdf(pdf_path): <<bars, parse_meta>>
parse_bars_from_pdf(pdf) ==
    parse_bars_as(_detect_pdf_format(IF pdf.pages # <<>> THEN pdf.pages[1] ELSE ""), pdf)

(***************************************************************************)
(* The parser specification: one call of one parser function on an input   *)
(* drawn from the sets below.                                              *)
(***************************************************************************)
\* tokens of a prefix: with and without a digit, of one and of more characters
TokenPool == {"12", "A1", "N", ".", "ACME"}

TokenLists == BoundedSeq(TokenPool, MaxTokens)

RECURSIVE JoinWith(_, _)
JoinWith(tokens, sep) ==
    IF tokens = <<>> THEN ""
    ELSE IF Len(tokens) = 1 THEN tokens[1]
    ELSE tokens[1] \o sep \o JoinWith(Tail(tokens), sep)

\* the token lists written with single blanks, with wider gaps, and padded
Prefixes ==
    {JoinWith(tokens, " ") : tokens \in TokenLists}
    \cup {JoinWith(tokens, " \t ") : tokens \in TokenLists}
    \cup {" " \o JoinWith(tokens, " ") \o "  " : tokens \in TokenLists}

\* what stands before the anchor of a line: nothing, blanks, or tokens
LinePrefixes == {JoinWith(tokens, " ") : tokens \in BoundedSeq(TokenPool, MaxLineTokens)} \cup {" "}

\* a weight cluster, and one whose gross weight has two decimals only
WeightClusters == {"1.000 0.000 0.9999", "1.00 0.000 0.9999"}

\* lines in the layout of a WisdomTree list, with and without year and vault,
\* and a footer line that has a weight cluster
WisdomTreeLines ==
    {prefix \o " " \o cluster \o suffix :
        prefix \in LinePrefixes, cluster \in WeightClusters, suffix \in {"", " 1999 V"}}
    \cup {"Page 12 1.000 0.000 0.9999"}

\* the fields after the prefix of an Invesco line, and the same with an
\* assay of two digits
InvescoFields == {"1000 oz 9990 962.200 962.200", "1000 oz 99 962.200 962.200"}

\* lines in the layout of an Invesco list, with and without a vault
InvescoLines ==
    {prefix \o " " \o fields \o suffix :
        prefix \in LinePrefixes, fields \in InvescoFields, suffix \in {"", " V"}}

\* what the generic parser is given: the lines of both layouts, a line
\* without any digit and a heading
GenericLines == WisdomTreeLines \cup InvescoLines \cup {"ACME N", "Fine A1B2 1.000"}

\* two WisdomTree lines of one bar that differ in the weight, and an
\* Invesco line of another bar
PdfLinePool ==
    {"A123 ACME 1.000 0.000 0.9999 V", "A123 ACME 2.000 0.000 0.9999 V",
     "ACME A023 1000 oz 9990 962.200 962.200 V"}

\* first lines of page 1 by which the format is detected
Headings == {"WisdomTree Bar List", "Invesco Physical", "Holdings"}

\* a PDF with the heading and the first line on page 1, the other lines on page 2
PdfOf(heading, lines) ==
    [pages |-> IF Len(lines) <= 1 THEN <<JoinWith(<<heading>> \o lines, "\n")>>
               ELSE <<JoinWith(<<heading, lines[1]>>, "\n"), JoinWith(Tail(lines), "\n")>>]

Pdfs ==
    {[pages |-> <<>>]}
    \cup {PdfOf(heading, lines) : heading \in Headings, lines \in BoundedSeq(PdfLinePool, MaxPdfLines)}

PendingParseCalls ==
    {Pending("_split_serial_refiner", [prefix |-> prefix]) : prefix \in Prefixes}
    \cup {Pending("_split_invesco_brand_serial", [prefix |-> prefix]) : prefix \in Prefixes}
    \cup {Pending("_parse_wisdomtree_line", [line |-> line, page_num |-> 1]) :
              line \in WisdomTreeLines}
    \cup {Pending("_parse_invesco_line", [line |-> line, page_num |-> 1]) : line \in InvescoLines}
    \cup {Pending("_parse_generic_line", [line |-> line, page_num |-> 1]) :
              line \in GenericLines}
    \cup {Pending("parse_bars_from_pdf", [pdf |-> pdf]) : pdf \in Pdfs}

InitParse ==
    /\ disk = <<>>
    /\ delta = <<>>
    /\ now = 1
    /\ processed = <<>>
    /\ raised = None
    /\ pc = [p \in Procs |-> "idle"]
    /\ mem = [p \in Procs |-> <<>>]
    /\ call \in PendingParseCalls

call__split_serial_refiner ==
    /\ IsPending("_split_serial_refiner")
    /\ call' = Returned(call[1], _split_serial_refiner(call[1].args.prefix))
    /\ UNCHANGED storeVars

call__split_invesco_brand_serial ==
    /\ IsPending("_split_invesco_brand_serial")
    /\ call' = Returned(call[1], _split_invesco_brand_serial(call[1].args.prefix))
    /\ UNCHANGED storeVars

call__parse_wisdomtree_line ==
    /\ IsPending("_parse_wisdomtree_line")
    /\ call' = Returned(call[1], _parse_wisdomtree_line(call[1].args.line, call[1].args.page_num))
    /\ UNCHANGED storeVars

call__parse_invesco_line ==
    /\ IsPending("_parse_invesco_line")
    /\ call' = Returned(call[1], _parse_invesco_line(call[1].args.line, call[1].args.page_num))
    /\ UNCHANGED storeVars

call__parse_generic_line ==
    /\ IsPending("_parse_generic_line")
    /\ call' = Returned(call[1], _parse_generic_line(call[1].args.line, call[1].args.page_num))
    /\ UNCHANGED storeVars

call_parse_bars_from_pdf ==
    /\ IsPending("parse_bars_from_pdf")
    /\ call' = Returned(call[1], parse_bars_from_pdf(call[1].args.pdf))
    /\ UNCHANGED storeVars

NextParse ==
    \/ call__split_serial_refiner
    \/ call__split_invesco_brand_serial
    \/ call__parse_wisdomtree_line
    \/ call__parse_invesco_line
    \/ call__parse_generic_line
    \/ call_parse_bars_from_pdf

SpecParse == InitParse /\ [][NextParse]_vars

(***************************************************************************)
(* C21.  A line parser (WisdomTree, Invesco or generic) returns either no  *)
(* record or a complete BarRecord of the line whose serial_number is a     *)
(* non-empty text.  The WisdomTree and the Invesco parser return no record *)
(* for a line their anchor does not match, for a line with nothing but     *)
(* blanks before the anchor, and for a line whose prefix the split         *)
(* function gives an empty serial for.                                     *)
(***************************************************************************)
BarRecordFields ==
    {"serial_number", "refiner", "gross_oz", "fine_oz", "fineness", "vault", "year",
     "source_page", "raw_line"}

C21_NoRecordWithoutSerial ==
    /\ \A op \in {"_parse_wisdomtree_line", "_parse_invesco_line", "_parse_generic_line"} :
          (CallOf(op) /\ Ret # NoneRec)
          => /\ DOMAIN Ret = BarRecordFields
             /\ Ret.serial_number \notin {"", None}
             /\ Len(Ret.serial_number) >= 1
             /\ Ret.raw_line = Args.line
    /\ CallOf("_parse_wisdomtree_line")
          => LET match == _WEIGHT_CLUSTER_RE(Args.line)
             IN  (\/ match = NoneRec
                  \/ split(Slice(Args.line, 1, match.start - 1)) = <<>>
                  \/ _split_serial_refiner(Slice(Args.line, 1, match.start - 1))[1] = "")
                 => Ret = NoneRec
    /\ CallOf("_parse_invesco_line")
          => LET match == _INVESCO_LINE_RE(Args.line)
             IN  (\/ match = NoneRec
                  \/ split(match.groups[1]) = <<>>
                  \/ _split_invesco_brand_serial(match.groups[1])[2] = "")
                 => Ret = NoneRec

\* the anchor of an Invesco line matched, its prefix had tokens, the split
\* gave no serial, and the line gave no record
C21_Witness ==
    /\ CallOf("_parse_invesco_line")
    /\ _INVESCO_LINE_RE(Args.line) # NoneRec
    /\ split(_INVESCO_LINE_RE(Args.line).groups[1]) # <<>>
    /\ _split_invesco_brand_serial(_INVESCO_LINE_RE(Args.line).groups[1])[2] = ""
    /\ Ret = NoneRec

\* the lines of the pages from page i on, each parsed by the parser of the
\* format: the records and, for a line that is no record, NoneRec
RECURSIVE ParsedFrom(_, _, _)
ParsedFrom(fmt, pages, i) ==
    IF i > Len(pages) THEN <<>>
    ELSE LET lines == page_lines(pages[i])
         IN  [n \in 1..Len(lines) |-> parse_line(fmt, lines[n], i)] \o ParsedFrom(fmt, pages, i + 1)

\* the dedup key of a record: its raw line, or serial|refiner in the generic format
KeyOf(fmt, record) ==
    IF fmt \in {"wisdomtree", "invesco"} THEN record.raw_line
    ELSE record.serial_number \o "|" \o (IF record.refiner = None THEN "" ELSE record.refiner)

(***************************************************************************)
(* C22.  After parse_bars_from_pdf: accepted_rows is the number of bars    *)
(* returned; no two returned bars have the same dedup key (the raw line    *)
(* for the WisdomTree and Invesco formats, serial|refiner for the generic  *)
(* format); the bars returned are the records of the first line of each    *)
(* key; duplicates_skipped is the number of later lines that parse and     *)
(* have the key of an earlier one; candidate_lines counts every line, so   *)
(* accepted_rows + duplicates_skipped <= candidate_lines.                  *)
(***************************************************************************)
C22_DedupCounts ==
    CallOf("parse_bars_from_pdf")
    => LET bars   == Ret[1]
           meta   == Ret[2]
           fmt    == meta.format
           all    == ParsedFrom(fmt, Args.pdf.pages, 1)
           parsed == SelectSeq(all, LAMBDA r : r # NoneRec)
           later  == {i \in 1..Len(parsed) :
                         \E j \in 1..(i - 1) : KeyOf(fmt, parsed[j]) = KeyOf(fmt, parsed[i])}
       IN  /\ meta.accepted_rows = Len(bars)
           /\ \A i, j \in 1..Len(bars) : KeyOf(fmt, bars[i]) = KeyOf(fmt, bars[j]) => i = j
           /\ SeqRange(bars) = {parsed[i] : i \in (1..Len(parsed)) \ later}
           /\ meta.duplicates_skipped = Cardinality(later)
           /\ meta.candidate_lines = Len(all)
           /\ meta.accepted_rows + meta.duplicates_skipped <= meta.candidate_lines

\* a generic list was parsed: two bars were returned, a line that differs
\* from the line kept for its key was skipped, and a line was no record
C22_Witness ==
    /\ CallOf("parse_bars_from_pdf")
    /\ Ret[2].format = "generic"
    /\ Len(Ret[1]) = 2
    /\ Ret[2].duplicates_skipped = 1
    /\ Ret[2].candidate_lines = 4
    /\ \E r \in SeqRange(ParsedFrom("generic", Args.pdf.pages, 1)) \ {NoneRec} :
          r \notin SeqRange(Ret[1])
          /\ \E b \in SeqRange(Ret[1]) :
                KeyOf("generic", b) = KeyOf("generic", r) /\ b.raw_line # r.raw_line

\* the tokens of a result component (None has none)
TokensOf(x) == IF x = None THEN <<>> ELSE split(x)

DigitFree(tokens) == \A i \in 1..Len(tokens) : ~has_digit(tokens[i])

(***************************************************************************)
(* C23.  _split_serial_refiner on a prefix with at least one token: the    *)
(* tokens of the serial followed by the tokens of the refiner are the      *)
(* tokens of the prefix, each component written with single blanks; the    *)
(* serial is never empty; the refiner is None when the prefix is a single  *)
(* token or its last token has a digit; when no token has a digit the      *)
(* serial is the first token and the refiner the rest; otherwise the       *)
(* refiner is the maximal trailing run of digit-free tokens: all its       *)
(* tokens are digit-free and the last token of the serial has a digit.     *)
(***************************************************************************)
C23_SplitKeepsTokens ==
    (CallOf("_split_serial_refiner") /\ split(Args.prefix) # <<>>)
    => LET tokens == split(Args.prefix)
           n == Len(tokens)
           serial == Ret[1]
           refiner == Ret[2]
       IN  /\ serial # ""
           /\ refiner # ""
           /\ TokensOf(serial) \o TokensOf(refiner) = tokens
           /\ serial = join(TokensOf(serial))
           /\ refiner # None => refiner = join(TokensOf(refiner))
           /\ (n = 1 \/ has_digit(tokens[n])) => refiner = None
           /\ (n >= 2 /\ DigitFree(tokens))
                 => serial = tokens[1] /\ TokensOf(refiner) = Tail(tokens)
           /\ ~DigitFree(tokens)
                 => /\ DigitFree(TokensOf(refiner))
                    /\ has_digit(Last(TokensOf(serial)))

\* a prefix of three tokens was split into a serial of two tokens, the second
\* with a digit, and a refiner
C23_Witness ==
    /\ CallOf("_split_serial_refiner")
    /\ Len(split(Args.prefix)) = 3
    /\ Len(TokensOf(Ret[1])) = 2
    /\ ~has_digit(TokensOf(Ret[1])[1])
    /\ Ret[2] # None

(***************************************************************************)
(* C24.  _split_invesco_brand_serial on a prefix of two or more tokens:    *)
(* the tokens of the brand followed by the tokens of the serial are the    *)
(* tokens of the prefix; every token of the serial has a digit or is a     *)
(* single character next to a token of the serial that has a digit; so a   *)
(* non-empty serial has a token with a digit; and when the last token of   *)
(* the prefix is a digit-free word of two or more characters the serial    *)
(* is empty.                                                               *)
(***************************************************************************)
C24_SerialNeedsDigit ==
    (CallOf("_split_invesco_brand_serial") /\ Len(split(Args.prefix)) >= 2)
    => LET tokens == split(Args.prefix)
           n == Len(tokens)
           brand == Ret[1]
           serial == Ret[2]
           st == split(serial)
       IN  /\ split(brand) \o st = tokens
           /\ \A i \in 1..Len(st) :
                 \/ has_digit(st[i])
                 \/ /\ Len(st[i]) = 1
                    /\ \E j \in {i - 1, i + 1} \cap (1..Len(st)) : has_digit(st[j])
           /\ serial # "" => ~DigitFree(st)
           /\ (~has_digit(tokens[n]) /\ Len(tokens[n]) >= 2) => serial = ""

(***************************************************************************)
(* C25.  After every non-repeat update_bar_history call the entries with   *)
(* status present are those of the identity keys of the snapshot just      *)
(* processed, and every other entry has status removed.  (A repeat call    *)
(* and a call that raised leave the file as it was, so this holds of the   *)
(* file whenever a snapshot has been processed.)                           *)
(***************************************************************************)
C25_PresentIsLastSnapshot ==
    processed # <<>>
    => LET hist_bars == bars_of(disk)
           current   == Last(processed).keys
       IN  /\ {k \in DOMAIN hist_bars : hist_bars[k].status = "present"} = current
           /\ \A k \in (DOMAIN hist_bars) \ current : hist_bars[k].status = "removed"

\* after the third snapshot one bar of the store is present and one is removed
C25_Witness ==
    /\ NumProcessed = 3
    /\ FreshDelta
    /\ \E k \in DOMAIN bars_of(disk) : bars_of(disk)[k].status = "present"
    /\ \E k \in DOMAIN bars_of(disk) : bars_of(disk)[k].status = "removed"

(***************************************************************************)
(* C26.  For every entry, after any sequence of updates: appearances is    *)
(* the list of the date tags of the processed snapshots that held the bar, *)
(* in processing order (so it has no duplicates and is a subsequence of    *)
(* snapshots); re_entries is the number of processed snapshots that held   *)
(* the bar while the snapshot processed just before did not, the first     *)
(* appearance not counted, which is the number of gaps between consecutive *)
(* elements of appearances when they are located in snapshots; and an      *)
(* update never decreases re_entries.                                      *)
(***************************************************************************)
\* the date tags of the processed snapshots that held k, in processing order
HeldIn(k) == SeqMap(LAMBDA p : p.date_tag, SelectSeq(processed, LAMBDA p : k \in p.keys))

\* the processed snapshots that held k while the one before did not, the
\* first one that held k left out
ComeBacks(k) ==
    {i \in 2..NumProcessed :
        /\ k \in processed[i].keys
        /\ k \notin processed[i - 1].keys
        /\ \E j \in 1..(i - 1) : k \in processed[j].keys}

\* where date tag t stands in snapshots
PlaceOf(t) == CHOOSE i \in 1..Len(snapshots_of(disk)) : snapshots_of(disk)[i] = t

\* the pairs of consecutive appearances that are not consecutive snapshots
Gaps(appearances) ==
    {i \in 1..(Len(appearances) - 1) : PlaceOf(appearances[i + 1]) > PlaceOf(appearances[i]) + 1}

ReEntriesMatchHistory ==
    \A k \in DOMAIN bars_of(disk) :
        LET entry == bars_of(disk)[k]
        IN  /\ entry.appearances = HeldIn(k)
            /\ NoDup(entry.appearances)
            /\ SeqRange(entry.appearances) \subseteq SeqRange(snapshots_of(disk))
            /\ \A i \in 1..(Len(entry.appearances) - 1) :
                  PlaceOf(entry.appearances[i]) < PlaceOf(entry.appearances[i + 1])
            /\ entry.re_entries = Cardinality(ComeBacks(k))
            /\ entry.re_entries = Cardinality(Gaps(entry.appearances))

ReEntriesGrow ==
    \A k \in DOMAIN bars_of(disk) :
        /\ k \in DOMAIN bars_of(disk')
        /\ bars_of(disk')[k].re_entries >= bars_of(disk)[k].re_entries

C26_ReEntriesCountGaps == []ReEntriesMatchHistory /\ [][ReEntriesGrow]_vars

\* a bar has come back twice in five snapshots
C26_Witness ==
    /\ NumProcessed = 5
    /\ \E k \in DOMAIN bars_of(disk) :
          /\ bars_of(disk)[k].re_entries = 2
          /\ Len(bars_of(disk)[k].appearances) = 3

(***************************************************************************)
(* C28.  The summary counts of a non-repeat delta describe the store as    *)
(* it is once the snapshot is applied: total_re_entry_bars is the number   *)
(* of entries of the store whose re_entries is greater than 0, and         *)
(* total_ever_seen is the number of entries of the store.                  *)
(***************************************************************************)
C28_SummaryCountsMatchStore ==
    FreshDelta
    => /\ delta[1].total_re_entry_bars
            = Cardinality({k \in DOMAIN bars_of(disk) : bars_of(disk)[k].re_entries > 0})
       /\ delta[1].total_ever_seen = Cardinality(DOMAIN bars_of(disk))

(***************************************************************************)
(* C30.  Snapshot order is processing order: snapshots lists the date tags *)
(* in the order they were processed, whatever their calendar order; the    *)
(* prev_date of a non-repeat delta is the date tag processed just before;  *)
(* the last_seen of an entry is the last element of its appearances, and   *)
(* that of an entry touched by the last update is the date tag just        *)
(* processed.  (The witness shows a date tag accepted after a later one,   *)
(* and a last_seen that is earlier than first_seen.)                       *)
(***************************************************************************)
C30_ProcessingOrder ==
    processed # <<>>
    => /\ snapshots_of(disk) = SeqMap(LAMBDA p : p.date_tag, processed)
       /\ \A k \in DOMAIN bars_of(disk) :
             /\ bars_of(disk)[k].appearances # <<>>
             /\ bars_of(disk)[k].last_seen = Last(bars_of(disk)[k].appearances)
             /\ k \in Last(processed).keys
                   => bars_of(disk)[k].last_seen = Last(processed).date_tag
       /\ FreshDelta
             => /\ delta[1].date_tag = Last(snapshots_of(disk))
                /\ delta[1].prev_date = IF NumProcessed = 1 THEN None
                                        ELSE processed[NumProcessed - 1].date_tag

\* the second date tag was processed first, then the first one, and a bar of
\* both snapshots has first_seen on the later date and last_seen on the earlier
C30_Witness ==
    /\ FreshDelta
    /\ snapshots_of(disk) = <<DateTag(2), DateTag(1)>>
    /\ delta[1].prev_date = DateTag(2)
    /\ \E k \in DOMAIN bars_of(disk) :
          /\ bars_of(disk)[k].first_seen = DateTag(2)
          /\ bars_of(disk)[k].last_seen = DateTag(1)

(***************************************************************************)
(* SpecMix: snapshots that mix the two records of identity A1 (vaults X    *)
(* and Y) with bar B2, so that one delta can hold an added, a returned, a  *)
(* vault-changed and an unchanged bar.  New date tags in ascending order.  *)
(***************************************************************************)
MixBarPool == {Bar1, Bar2, Bar4}

MixBarLists == UNION {Orders(S) : S \in SUBSET MixBarPool}

MixDateTags == {DateTag(i) : i \in 1..MaxMixDate}

NextMix ==
    \E bars \in MixBarLists, date_tag \in NextDeepTags \cap MixDateTags :
        update_bar_history(bars, date_tag)

SpecMix == Init /\ [][NextMix]_vars

(***************************************************************************)
(* The delta loop of the two main functions, for one fund of one run       *)
(* (verify_silver_etcs.main, vault_delta.main): bars is the fund's          *)
(* report["results"][fund]["bars"], date_tag the as-of date of the bar     *)
(* list header or today's date.  A skipped fund gets no entry in            *)
(* delta_results.                                                          *)
(***************************************************************************)
\* variant: the loop never skips a fund
skips_delta_never(bars) == FALSE

\* if not bars: ... continue
skips_delta(bars) == bars = <<>>

run_delta(bars, date_tag) ==
    IF skips_delta(bars)
    THEN /\ delta' = <<>>
         /\ raised' = None
         /\ UNCHANGED <<disk, now, processed>>
         /\ UNCHANGED otherVars
    ELSE update_bar_history(bars, date_tag)

\* SpecRun: runs of the delta loop on one fund, some of them without bars
NextRun ==
    \E bars \in MixBarLists, date_tag \in NextDeepTags \cap MixDateTags :
        run_delta(bars, date_tag)

SpecRun == Init /\ [][NextRun]_vars

(***************************************************************************)
(* C27.  In every delta that is neither the first one nor a repeat, each   *)
(* identity of the current snapshot is in exactly one of added, returned,  *)
(* vault_changes and the unchanged ones, so len(added) + len(returned) +   *)
(* len(vault_changes) + unchanged = total_current, and no identity of      *)
(* removed is in the current snapshot.                                     *)
(***************************************************************************)
C27_DeltaPartitionsCurrent ==
    NormalDelta
    => LET d        == delta[1]
           current  == Last(processed).keys
           added    == KeySet(d.added)
           returned == KeySet(d.returned)
           changed  == KeySet(d.vault_changes)
       IN  /\ (added \cup returned \cup changed) \subseteq current
           /\ added \cap returned = {}
           /\ added \cap changed = {}
           /\ returned \cap changed = {}
           /\ NoDup(KeySeq(d.added))
           /\ NoDup(KeySeq(d.returned))
           /\ NoDup(KeySeq(d.vault_changes))
           /\ d.unchanged = Cardinality(current \ (added \cup returned \cup changed))
           /\ d.total_current = Cardinality(current)
           /\ Len(d.added) + Len(d.returned) + Len(d.vault_changes) + d.unchanged
                 = d.total_current
           /\ KeySet(d.removed) \cap current = {}

\* the third snapshot brings one bar back and shows the other in a new vault
C27_Witness ==
    /\ NormalDelta
    /\ Len(delta[1].returned) = 1
    /\ Len(delta[1].vault_changes) = 1
    /\ delta[1].total_current = 2

(***************************************************************************)
(* C29.  A run whose report holds no bars for the fund skips               *)
(* update_bar_history: the history store is left as it was (no present     *)
(* entry becomes removed, the date is not appended to snapshots), and the  *)
(* next run with bars does not count as returned, nor as a re-entry, the   *)
(* bars that were present before the skipped run.                          *)
(***************************************************************************)
\* the last run was skipped and the fund has a store
SkippedRun == delta = <<>> /\ disk # <<>>

NoBarsNoUpdate ==
    /\ \A date_tag \in MixDateTags :
          run_delta(<<>>, date_tag) => (disk' = disk /\ processed' = processed)
    /\ (SkippedRun /\ delta' # <<>>)
          => \A k \in DOMAIN bars_of(disk') :
                (k \in DOMAIN bars_of(disk) /\ bars_of(disk)[k].status = "present"
                    /\ bars_of(disk')[k].status = "present")
                => /\ k \notin KeySet(delta'[1].returned)
                   /\ bars_of(disk')[k].re_entries = bars_of(disk)[k].re_entries

C29_NoBarsNoUpdate == [][NoBarsNoUpdate]_vars

\* a run without bars was made on a store with snapshots, and a bar of the
\* store is still present after it
C29_Witness ==
    /\ SkippedRun
    /\ snapshots_of(disk) # <<>>
    /\ \E k \in DOMAIN bars_of(disk) : bars_of(disk)[k].status = "present"

====
